---- MODULE Spec2Model ----
(***************************************************************************)
(* The reconciliation ("holistic") handler of the hook-service operator    *)
(* charm: src/src/charm.py and the helpers it calls.                       *)
(*                                                                         *)
(* One application with two units shares the API-token secret, the peer    *)
(* databag, the relation databags and the workload database.  Every event  *)
(* handler runs to completion on one unit before the next event is         *)
(* delivered, so a handler is one action.  Everything the charm reads but  *)
(* does not own (relations, configuration, leadership, the outcome of the  *)
(* commands run in the workload container) is the record env; everything   *)
(* the charm writes is the record st; last is the trace of the handler     *)
(* that ran most recently.                                                 *)
(***************************************************************************)
EXTENDS Integers, Sequences, FiniteSets, TLC

VARIABLES env, st, last, changes

vars == <<env, st, last, changes>>

(***************************************************************************)
(* Bounds of the model.                                                    *)
(***************************************************************************)
\* how many times the environment may change in one behaviour
MaxEnvChanges == 2
\* the history counters (secrets created, failed migrations) stop counting here
MaxCounted == 3

(***************************************************************************)
(* Constants of src/src/constants.py.                                      *)
(***************************************************************************)
API_TOKEN_SECRET_KEY == "api-token"
API_TOKEN_SECRET_LABEL == "apitokensecret"
OPENFGA_MODEL_ID == "openfga_model_id"
WORKLOAD_CONTAINER == "hook-service"
DATABASE_INTEGRATION_NAME == "pg-database"
OPENFGA_INTEGRATION_NAME == "openfga"
POSTGRESQL_DSN_TEMPLATE(username, password, endpoint, database) ==
    "postgres://" \o username \o ":" \o password \o "@" \o endpoint \o "/" \o database

(***************************************************************************)
(* The finite universe of the model.                                       *)
(***************************************************************************)
Units == {"u0", "u1"}
Versions == {"1.10.0", "1.11.0"}
Tokens == {"t1"}
ModelIds == {"m1", "m2"}
CAs == {"ca1", "ca2"}

\* the relation data of the pg-database integration; the endpoints string is the
\* sequence of its pieces, a "," being the separator
DbDatas ==
    { [endpoints |-> <<"h1:5432", ",", "h2:5432">>, username |-> "u", password |-> "p"],
      [endpoints |-> <<"h3:5432">>, username |-> "v", password |-> "q"] }

\* the user secrets the model holds besides the API-token secret
UserSecrets == {"secret:sf"}

\* charm configurations (config.yaml options the code reads)
Configs ==
    { [salesforce_enabled |-> FALSE, salesforce_domain |-> "",
       salesforce_consumer_secret |-> "", authn_issuer |-> "", authn_jwks_url |-> ""],
      [salesforce_enabled |-> TRUE, salesforce_domain |-> "sf.example",
       salesforce_consumer_secret |-> "secret:sf", authn_issuer |-> "", authn_jwks_url |-> ""],
      [salesforce_enabled |-> TRUE, salesforce_domain |-> "sf.example",
       salesforce_consumer_secret |-> "secret:gone", authn_issuer |-> "", authn_jwks_url |-> ""],
      [salesforce_enabled |-> TRUE, salesforce_domain |-> "",
       salesforce_consumer_secret |-> "secret:sf", authn_issuer |-> "", authn_jwks_url |-> ""],
      [salesforce_enabled |-> FALSE, salesforce_domain |-> "",
       salesforce_consumer_secret |-> "", authn_issuer |-> "", authn_jwks_url |-> "jwks"],
      [salesforce_enabled |-> FALSE, salesforce_domain |-> "",
       salesforce_consumer_secret |-> "", authn_issuer |-> "iss", authn_jwks_url |-> "jwks"] }

DefaultConfig ==
    [salesforce_enabled |-> TRUE, salesforce_domain |-> "sf.example",
     salesforce_consumer_secret |-> "secret:sf", authn_issuer |-> "", authn_jwks_url |-> ""]

DatabaseStates == {"none", "joined", "created"}
OpenfgaStates == {"none", "joined", "store_no_token", "ready"}
RouteStates == {"none", "no_host", "ready"}
CheckFaults == {"none", "exec_error", "stderr", "bad_json"}
FgaFaults == {"none", "exec_error", "bad_json", "no_model_id"}
PebbleFaults == {"none", "add_layer", "restart"}
\* a command of the workload that takes long, and the seconds it takes
SlowCommands ==
    { [cmd |-> "none", seconds |-> 0],
      [cmd |-> "migrate check", seconds |-> 60], [cmd |-> "migrate check", seconds |-> 200],
      [cmd |-> "migrate up", seconds |-> 60], [cmd |-> "migrate up", seconds |-> 200],
      [cmd |-> "create-fga-model", seconds |-> 60] }

\* the events whose handlers the model runs
Events == {"config_changed", "openfga_store_removed"}

EnsureSteps ==
    << "_ensure_secrets", "_ensure_hydra_relation", "_ensure_internal_ingress",
       "_ensure_database_migration", "_ensure_openfga_model", "_ensure_tls" >>

\* src/src/services.py: the layer dictionary of the module, before any render; every
\* PebbleService of the process holds this one dictionary
PEBBLE_LAYER_DICT == [command |-> "hook-service serve", startup |-> "disabled"]

(***************************************************************************)
(* The trace of one handler run.  NoPass is the trace before any handler   *)
(* ran and after the environment changed.                                  *)
(***************************************************************************)
NoPass ==
    [ kind |-> "none", event |-> "none", unit |-> "none", leader |-> FALSE,
      gate |-> FALSE, steps |-> <<>>, results |-> <<>>, can_plan |-> FALSE,
      exc |-> "none",
      secret_at_start |-> "", record_at_start |-> "", check_at_start |-> "none",
      check_out |-> [exit |-> 0, stdout |-> <<"none", "">>, stderr |-> ""],
      up_failures_at_start |-> 0, created_ids |-> <<>>,
      secret_creates |-> 0, hydra_writes |-> 0, route_submits |-> 0,
      migration_checks |-> 0, migrate_up |-> <<>>, create_model |-> <<>>,
      peer_writes |-> <<>>, peer_pops |-> <<>>, tls_runs |-> 0,
      render_calls |-> 0, plan_calls |-> 0, add_layer_calls |-> 0,
      start_calls |-> 0, replan_calls |-> 0, restart_calls |-> 0, service_restarts |-> 0,
      status |-> [name |-> "unknown", message |-> ""], status_exc |-> "none",
      st_before |-> <<>>,
      holistic_calls |-> 0, open_port_calls |-> 0, set_version_calls |-> 0, dsn |-> "",
      peer_cache |-> <<>>,
      layer_dict_at_start |-> PEBBLE_LAYER_DICT,
      layer_dict |-> PEBBLE_LAYER_DICT, layer |-> <<>> ]

\* the result of a call: a value, or the exception it raised, and the context after it
Ret(v, c) == [ok |-> v, exc |-> "none", c |-> c]
Raise(x, c) == [ok |-> FALSE, exc |-> x, c |-> c]

\* src/src/exceptions.py: the subclasses of CharmError.  charm.py and cli.py import
\* MigrationCheckError, MigrationError and CreateFgaStoreError from exceptions, where
\* they are not defined; they are taken to be CharmErrors like the other two
CharmErrors ==
    {"InvalidSalesforceConfig", "PebbleError", "MigrationCheckError", "MigrationError",
     "CreateFgaStoreError"}

Min(a, b) == IF a < b THEN a ELSE b

\* the element of a singleton: Only({e(x) : x \in {v}}) is e with x bound to the
\* value of v, computed once
Only(S) == CHOOSE x \in S : TRUE

(***************************************************************************)
(* ops: leadership and the workload version of the unit the handler runs   *)
(* on.                                                                     *)
(***************************************************************************)
is_leader(c) == c.env.leader = c.u

\* WorkloadService.version: the version the workload container reports
WorkloadService_version(c) == c.env.version[c.u]

(***************************************************************************)
(* src/src/configs.py                                                      *)
(***************************************************************************)
REQUIRED_KEYS == <<"salesforce_domain", "salesforce_consumer_secret">>

get_missing_config_keys(config) ==
    IF ~config.salesforce_enabled THEN <<>>
    ELSE SelectSeq(REQUIRED_KEYS, LAMBDA k : config[k] = "")

get_oauth_config(config) ==
    { k \in {"authn_issuer", "authn_jwks_url"} : config[k] # "" }

\* CharmConfig._get_salesforce_consumer_info: the secret must resolve
_get_salesforce_consumer_info(config) ==
    IF config.salesforce_consumer_secret \in UserSecrets
    THEN [exc |-> "none", key |-> "key", secret |-> "secret"]
    ELSE [exc |-> "InvalidSalesforceConfig", key |-> "", secret |-> ""]

\* CharmConfig.to_env_vars: raises when salesforce is enabled and the secret fails;
\* log_level and the proxy options keep their defaults in this model
CharmConfig_to_env_vars(config) ==
    LET base == [k \in get_oauth_config(config) |-> config[k]]
                @@ [LOG_LEVEL |-> "INFO", SALESFORCE_ENABLED |-> config.salesforce_enabled,
                    HTTP_PROXY |-> "None", HTTPS_PROXY |-> "None", NO_PROXY |-> "None"]
        consumer == _get_salesforce_consumer_info(config)
    IN  IF ~config.salesforce_enabled THEN [exc |-> "none", vars |-> base]
        ELSE IF consumer.exc # "none" THEN [exc |-> consumer.exc, vars |-> base]
        ELSE [exc |-> "none",
              vars |-> [SALESFORCE_CONSUMER_KEY |-> consumer.key,
                        SALESFORCE_CONSUMER_SECRET |-> consumer.secret,
                        SALESFORCE_DOMAIN |-> config.salesforce_domain] @@ base]

(***************************************************************************)
(* src/src/utils.py: the conditions of the readiness gate                  *)
(***************************************************************************)
container_connectivity(c) == c.env.can_connect[c.u]

database_integration_exists(c) == c.env.database # "none"

database_resource_is_created(c) == c.env.database = "created"

config_readiness(c) == get_missing_config_keys(c.env.config) = <<>>

openfga_integration_exists(c) == c.env.openfga # "none"

peer_integration_exists(c) == c.env.peer

\* OAuthIntegration.is_ready
oauth_is_ready(c) == c.env.oauth

authentication_config_status(c) ==
    LET oauth_config == get_oauth_config(c.env.config)
        oauth_relation_ready == oauth_is_ready(c)
    IN  IF oauth_relation_ready
            /\ ("authn_issuer" \in oauth_config \/ "authn_jwks_url" \in oauth_config)
        THEN "active"
        ELSE IF ~oauth_relation_ready
                /\ oauth_config # {} /\ "authn_issuer" \notin oauth_config
        THEN "blocked"
        ELSE "active"

authentication_config_is_valid(c) == authentication_config_status(c) = "active"

\* variant: the two database conditions left out of the list
NOOP_CONDITIONS_skip_database(c) ==
    << container_connectivity(c),
       TRUE,
       TRUE,
       config_readiness(c),
       openfga_integration_exists(c),
       authentication_config_is_valid(c) >>

NOOP_CONDITIONS(c) ==
    << container_connectivity(c),
       database_integration_exists(c),
       database_resource_is_created(c),
       config_readiness(c),
       openfga_integration_exists(c),
       authentication_config_is_valid(c) >>

\* variant: any() in the place of all()
gate_passes_any(c) == \E i \in 1..Len(NOOP_CONDITIONS(c)) : NOOP_CONDITIONS(c)[i]

\* all(condition(self) for condition in NOOP_CONDITIONS)
gate_passes(c) == \A i \in 1..Len(NOOP_CONDITIONS(c)) : NOOP_CONDITIONS(c)[i]

(***************************************************************************)
(* Helpers on the context c = [u, env, st, log, inp] a handler threads     *)
(* through its calls: u is the unit, inp the values drawn by this run (the *)
(* random token, the model id the provisioning command prints).            *)
(***************************************************************************)
SetLog(c, f, v) == [c EXCEPT !.log[f] = v]
SetSt(c, f, v) == [c EXCEPT !.st[f] = v]

(***************************************************************************)
(* src/src/secret.py                                                       *)
(***************************************************************************)
\* Secrets.__getitem__(API_TOKEN_SECRET_LABEL): "" stands for None
Secrets_getitem(c) == c.st.secret

\* Secrets.is_ready: the secret exists and its content is not empty
Secrets_is_ready(c) == Secrets_getitem(c) # ""

\* Secrets.__setitem__: app.add_secret
Secrets_setitem(c, token) ==
    LET c1 == SetSt(c, "secret", token)
        c2 == SetSt(c1, "secrets_created", Min(c.st.secrets_created + 1, MaxCounted))
    IN  SetLog(c2, "secret_creates", c.log.secret_creates + 1)

\* Secrets.api_token: subscripting None raises TypeError
Secrets_api_token(c) ==
    IF Secrets_getitem(c) = ""
    THEN [exc |-> "TypeError", value |-> ""]
    ELSE [exc |-> "none", value |-> Secrets_getitem(c)]

(***************************************************************************)
(* src/src/integrations.py                                                 *)
(***************************************************************************)
\* InternalIngressData.load: url and config exist when the provider gave its host
InternalIngressData_load(c) ==
    IF c.env.route = "ready"
    THEN [url |-> "http://ingress/model-app", config |-> "route-config"]
    ELSE [url |-> "", config |-> "empty-config"]

\* TraefikRouteRequirer.is_ready and _relation.app is not None
internal_ingress_is_ready(c) == c.env.route # "none"

HydraHookIntegration_is_ready(c) == c.env.hydra

HydraHookIntegration_update_relation_data(c, hook_url, api_token) ==
    LET c1 == SetSt(c, "hydra_data", << [url |-> hook_url, auth_config_value |-> api_token] >>)
    IN  SetLog(c1, "hydra_writes", c.log.hydra_writes + 1)

\* the string of a sequence of pieces
RECURSIVE StrJoin(_)
StrJoin(pieces) == IF pieces = <<>> THEN "" ELSE Head(pieces) \o StrJoin(Tail(pieces))

\* variant: the entry after the last separator
LastEndpoint(endpoints) ==
    LET commas == {i \in 1..Len(endpoints) : endpoints[i] = ","}
        n == IF commas = {} THEN 0 ELSE CHOOSE i \in commas : \A j \in commas : j <= i
    IN  StrJoin(SubSeq(endpoints, n + 1, Len(endpoints)))

\* str.split(",")[0] on the endpoints string: what is before the first separator, the
\* whole string when there is none
FirstEndpoint(endpoints) ==
    LET commas == {i \in 1..Len(endpoints) : endpoints[i] = ","}
        n == IF commas = {} THEN Len(endpoints)
             ELSE (CHOOSE i \in commas : \A j \in commas : i <= j) - 1
    IN  StrJoin(SubSeq(endpoints, 1, n))

DatabaseConfig_load(c) ==
    IF c.env.database = "none"
    THEN [endpoint |-> "", database |-> "", username |-> "", password |-> ""]
    ELSE IF c.env.database = "joined"
    THEN [endpoint |-> "", database |-> "model_hook-service", username |-> "", password |-> ""]
    ELSE [endpoint |-> FirstEndpoint(c.env.db_data.endpoints),
          database |-> "model_hook-service",
          username |-> c.env.db_data.username,
          password |-> c.env.db_data.password]

DatabaseConfig_dsn(d) ==
    POSTGRESQL_DSN_TEMPLATE(d.username, d.password, d.endpoint, d.database)

OpenFGAIntegration_is_store_ready(c) == c.env.openfga \in {"store_no_token", "ready"}

OpenFGAIntegrationData_default == [url |-> "", api_token |-> "", store_id |-> ""]

OpenFGAIntegration_openfga_integration_data(c) ==
    IF c.env.openfga = "ready"
    THEN [url |-> "http://openfga:8080", api_token |-> "fga-token", store_id |-> "store-1"]
    ELSE OpenFGAIntegrationData_default

\* PeerData: the application databag of the peer relation holds, under a workload
\* version, the JSON document {"openfga_model_id": id}; "" stands for no entry.
PeerData_getitem(c, key) == IF ~c.env.peer THEN "" ELSE c.st.peer_data[key]

PeerData_setitem(c, key, id) ==
    IF ~c.env.peer THEN c
    ELSE LET c1 == SetSt(c, "peer_data", [c.st.peer_data EXCEPT ![key] = id])
         IN  SetLog(c1, "peer_writes", Append(c.log.peer_writes, key))

\* variant: the records of all versions are cleared
PeerData_pop_every_key(c, key) ==
    IF ~c.env.peer THEN c
    ELSE LET c1 == SetSt(c, "peer_data", [v \in Versions |-> ""])
         IN  SetLog(c1, "peer_pops", Append(c.log.peer_pops, key))

PeerData_pop(c, key) ==
    IF ~c.env.peer THEN c
    ELSE LET c1 == SetSt(c, "peer_data", [c.st.peer_data EXCEPT ![key] = ""])
         IN  SetLog(c1, "peer_pops", Append(c.log.peer_pops, key))

\* sorted(): the CA names in lexicographic order
CaOrder == <<"ca1", "ca2">>

\* "\n".join(lines)
RECURSIVE JoinLines(_)
JoinLines(lines) ==
    IF lines = <<>> THEN ""
    ELSE IF Len(lines) = 1 THEN lines[1]
    ELSE lines[1] \o "\n" \o JoinLines(Tail(lines))

\* variant: the certificates of the v1 relations, then those of the v0 relations
TLSCertificates_load_v1_then_v0(c) ==
    JoinLines(SelectSeq(CaOrder, LAMBDA x : x \in c.env.certs_v1)
              \o SelectSeq(CaOrder, LAMBDA x : x \in c.env.certs_v0))

\* TLSCertificates.load(...).ca_bundle: the v1 and v0 certificates as one set, sorted,
\* joined by newlines
TLSCertificates_load(c) ==
    LET ca_certs == c.env.certs_v1 \cup c.env.certs_v0
    IN  JoinLines(SelectSeq(CaOrder, LAMBDA x : x \in ca_certs))

(***************************************************************************)
(* src/src/cli.py, and what the commands do in the workload container      *)
(***************************************************************************)
\* CmdExecConfig.timeout, and the timeout of migrate_up and migrate_down, in seconds
CmdExecConfig_timeout == 20
migrate_timeout == 120

\* Container.exec with a timeout: Pebble ends a command that runs longer, and
\* wait_output raises a pebble Error
TimesOut(c, cmd, timeout) ==
    (IF c.env.slow.cmd = cmd THEN c.env.slow.seconds ELSE 1) > timeout

\* Container.exec of `hook-service migrate check`; exec on a container that cannot
\* be reached, and a command that times out, raise a pebble Error like a command
\* that exits non-zero
ExecMigrateCheck(c) ==
    LET status == IF c.st.migrated THEN "ok" ELSE "pending"
    IN  CASE ~c.env.can_connect[c.u] \/ c.env.check_fault = "exec_error"
                \/ TimesOut(c, "migrate check", CmdExecConfig_timeout) ->
                [exit |-> 1, stdout |-> <<"text", "">>, stderr |-> "failed"]
          [] c.env.check_fault = "stderr" ->
                [exit |-> 0, stdout |-> <<"json", status>>, stderr |-> "warning"]
          [] c.env.check_fault = "bad_json" ->
                [exit |-> 0, stdout |-> <<"text", "garbage">>, stderr |-> ""]
          [] OTHER ->
                [exit |-> 0, stdout |-> <<"json", status>>, stderr |-> ""]

\* variant: the output on stderr is not looked at
migration_check_ignoring_stderr(c, dsn) ==
    LET out == ExecMigrateCheck(c)
    IN  IF out.exit # 0 THEN [exc |-> "MigrationCheckError", value |-> FALSE]
        ELSE IF out.stdout[1] # "json" THEN [exc |-> "JSONDecodeError", value |-> FALSE]
        ELSE [exc |-> "none", value |-> (out.stdout[2] = "ok")]

\* CommandLine.migration_check
migration_check(c, dsn) ==
    LET out == ExecMigrateCheck(c)
    IN  IF out.exit # 0 THEN [exc |-> "MigrationCheckError", value |-> FALSE]
        ELSE IF out.stderr # "" THEN [exc |-> "MigrationCheckError", value |-> FALSE]
        ELSE IF out.stdout[1] # "json" THEN [exc |-> "JSONDecodeError", value |-> FALSE]
        ELSE [exc |-> "none", value |-> (out.stdout[2] = "ok")]

\* CommandLine.migrate_up: on success the schema of the database is up to date
migrate_up(c, dsn) ==
    LET c1 == SetLog(c, "migrate_up", Append(c.log.migrate_up, dsn))
    IN  IF c.env.up_fault \/ TimesOut(c, "migrate up", migrate_timeout)
        THEN Raise("MigrationError",
                   SetSt(c1, "up_failures", Min(c.st.up_failures + 1, MaxCounted)))
        ELSE Ret(TRUE, SetSt(c1, "migrated", TRUE))

\* Container.exec of `hook-service create-fga-model`: it needs the store's coordinates
ExecCreateFgaModel(c, data) ==
    CASE data.url = "" \/ data.api_token = "" \/ data.store_id = "" ->
            [exit |-> 1, stdout |-> <<"text", "">>]
      [] c.env.fga_fault = "exec_error"
            \/ TimesOut(c, "create-fga-model", CmdExecConfig_timeout) ->
            [exit |-> 1, stdout |-> <<"text", "">>]
      [] c.env.fga_fault = "bad_json" -> [exit |-> 0, stdout |-> <<"text", "garbage">>]
      [] c.env.fga_fault = "no_model_id" -> [exit |-> 0, stdout |-> <<"json", "">>]
      [] OTHER -> [exit |-> 0, stdout |-> <<"json", c.inp.model_id>>]

\* CommandLine.create_openfga_model: "" stands for None
cli_create_openfga_model(c, data) ==
    LET out == ExecCreateFgaModel(c, data)
    IN  IF out.exit # 0 THEN [exc |-> "none", value |-> ""]
        ELSE IF out.stdout[1] # "json" THEN [exc |-> "JSONDecodeError", value |-> ""]
        ELSE [exc |-> "none", value |-> out.stdout[2]]

\* WorkloadService.create_openfga_model, called by charm.py and absent from
\* services.py: it runs the command once; no model id is a CreateFgaStoreError
WorkloadService_create_openfga_model(c, data) ==
    LET c1 == SetLog(c, "create_model", Append(c.log.create_model, data))
        r == cli_create_openfga_model(c, data)
    IN  IF r.exc # "none" THEN [exc |-> r.exc, value |-> "", c |-> c1]
        ELSE IF r.value = "" THEN [exc |-> "CreateFgaStoreError", value |-> "", c |-> c1]
        ELSE [exc |-> "none", value |-> r.value,
              c |-> SetLog(c1, "created_ids", Append(c.log.created_ids, r.value))]

\* WorkloadService.update_ca_certs, called by charm.py and absent from services.py:
\* it hands the bundle to the workload
WorkloadService_update_ca_certs(c) == SetLog(c, "tls_runs", c.log.tls_runs + 1)

(***************************************************************************)
(* src/src/charm.py: properties                                            *)
(***************************************************************************)
_hydra_hook_url(c) ==
    LET internal_url == InternalIngressData_load(c).url
    IN  IF internal_url # ""
        THEN internal_url \o "/api/v0/hook/hydra"
        ELSE "http://hook-service.model.svc.cluster.local:8080/api/v0/hook/hydra"

migration_needed(c) ==
    IF ~database_resource_is_created(c)
    THEN [exc |-> "none", value |-> FALSE]
    ELSE LET r == migration_check(c, DatabaseConfig_dsn(DatabaseConfig_load(c)))
         IN  [exc |-> r.exc, value |-> ~r.value]

\* utils.migration_is_ready: a MigrationCheckError counts as not ready
migration_is_ready(c) ==
    LET r == migration_needed(c)
    IN  IF r.exc = "MigrationCheckError" THEN [exc |-> "none", value |-> FALSE]
        ELSE IF r.exc # "none" THEN [exc |-> r.exc, value |-> FALSE]
        ELSE [exc |-> "none", value |-> ~r.value]

(***************************************************************************)
(* src/src/env_vars.py and the to_env_vars of the sources of the layer     *)
(***************************************************************************)
DEFAULT_CONTAINER_ENV ==
    [ OTEL_HTTP_ENDPOINT |-> "", OTEL_GRPC_ENDPOINT |-> "", TRACING_ENABLED |-> FALSE,
      LOG_LEVEL |-> "info", PORT |-> "8080", API_TOKEN |-> "",
      SALESFORCE_ENABLED |-> TRUE, SALESFORCE_CONSUMER_KEY |-> "",
      SALESFORCE_CONSUMER_SECRET |-> "", SALESFORCE_DOMAIN |-> "",
      AUTHORIZATION_ENABLED |-> FALSE ]

\* TracingData.load(...).to_env_vars()
TracingData_to_env_vars(c) ==
    IF c.env.tracing
    THEN [TRACING_ENABLED |-> TRUE, OTEL_HTTP_ENDPOINT |-> "tempo:4318"]
    ELSE [TRACING_ENABLED |-> FALSE, OTEL_HTTP_ENDPOINT |-> ""]

DatabaseConfig_to_env_vars(c) == [DSN |-> DatabaseConfig_dsn(DatabaseConfig_load(c))]

\* variant: the token is not handed to the layer
Secrets_to_env_vars_without_token(c) ==
    [exc |-> "none", vars |-> [API_TOKEN |-> ""]]

Secrets_to_env_vars(c) ==
    LET tok == Secrets_api_token(c)
    IN  [exc |-> tok.exc, vars |-> [API_TOKEN |-> tok.value]]

\* OpenFGAModelData.load(source).to_env_vars()
OpenFGAModelData_to_env_vars(model_id) == [OPENFGA_AUTHORIZATION_MODEL_ID |-> model_id]

OpenFGAIntegrationData_to_env_vars(data) ==
    [ OPENFGA_STORE_ID |-> data.store_id,
      OPENFGA_API_TOKEN |-> data.api_token,
      OPENFGA_API_SCHEME |-> IF data.url = "" THEN "" ELSE "http",
      OPENFGA_API_HOST |-> IF data.url = "" THEN "" ELSE "openfga:8080",
      AUTHORIZATION_ENABLED |-> (data.store_id # "" /\ data.api_token # "" /\ data.url # "") ]

(***************************************************************************)
(* src/src/services.py: PebbleService                                      *)
(***************************************************************************)
\* ops.pebble.Layer(raw): the layer takes a copy of the dictionary
Layer(raw) == raw

\* variant: the environment of the earlier renders is kept and updated
render_pebble_layer_keeping_environment(layer_dict, sources) ==
    LET RECURSIVE Update(_, _)
        Update(acc, i) ==
            IF i > Len(sources) THEN acc ELSE Update(sources[i] @@ acc, i + 1)
        updated_env_vars == Update(<<>>, 1)
        previous == IF "environment" \in DOMAIN layer_dict
                    THEN layer_dict.environment ELSE <<>>
        env_vars == updated_env_vars @@ previous @@ DEFAULT_CONTAINER_ENV
        updated == [environment |-> env_vars] @@ layer_dict
    IN  [layer_dict |-> updated, layer |-> Layer(updated)]

\* variant: the defaults are applied over the contributions of the sources
render_pebble_layer_defaults_last(layer_dict, sources) ==
    LET RECURSIVE Update(_, _)
        Update(acc, i) ==
            IF i > Len(sources) THEN acc ELSE Update(sources[i] @@ acc, i + 1)
        updated_env_vars == Update(<<>>, 1)
        env_vars == DEFAULT_CONTAINER_ENV @@ updated_env_vars
        updated == [environment |-> env_vars] @@ layer_dict
    IN  [layer_dict |-> updated, layer |-> Layer(updated)]

\* render_pebble_layer: dict.update in the order of the sources, over the defaults;
\* the environment is assigned into self._layer_dict, which the next render finds
render_pebble_layer(layer_dict, sources) ==
    LET RECURSIVE Update(_, _)
        Update(acc, i) ==
            IF i > Len(sources) THEN acc ELSE Update(sources[i] @@ acc, i + 1)
        updated_env_vars == Update(<<>>, 1)
        env_vars == updated_env_vars @@ DEFAULT_CONTAINER_ENV
        updated == [environment |-> env_vars] @@ layer_dict
    IN  [layer_dict |-> updated, layer |-> Layer(updated)]

\* charm._pebble_layer: the sources in the order the property passes them
_pebble_layer(c) ==
    LET secrets == Secrets_to_env_vars(c)
        config == CharmConfig_to_env_vars(c.env.config)
        c1 == SetLog(c, "render_calls", c.log.render_calls + 1)
    IN  IF secrets.exc # "none" THEN [exc |-> secrets.exc, layer |-> <<>>, c |-> c1]
        ELSE IF config.exc # "none" THEN [exc |-> config.exc, layer |-> <<>>, c |-> c1]
        ELSE Only({ [ exc |-> "none", layer |-> r.layer,
                      c |-> SetLog(SetLog(c1, "layer_dict", r.layer_dict), "layer", r.layer) ]
                    : r \in {render_pebble_layer(
                                c.log.layer_dict,
                                << TracingData_to_env_vars(c),
                                   DatabaseConfig_to_env_vars(c),
                                   secrets.vars,
                                   config.vars,
                                   OpenFGAModelData_to_env_vars(
                                       PeerData_getitem(c, WorkloadService_version(c))),
                                   OpenFGAIntegrationData_to_env_vars(
                                       OpenFGAIntegration_openfga_integration_data(c)) >>)} })

\* Container.start: the service runs with the configuration of the current plan
Container_start(c) ==
    SetLog(SetSt(SetSt(c, "service", [c.st.service EXCEPT ![c.u] = "active"]),
                 "started_with", [c.st.started_with EXCEPT ![c.u] = c.st.layer[c.u]]),
           "start_calls", c.log.start_calls + 1)

\* Container.restart: the service is stopped and started with the current plan
Container_restart(c) ==
    SetLog(SetLog(SetSt(SetSt(c, "service", [c.st.service EXCEPT ![c.u] = "active"]),
                        "started_with", [c.st.started_with EXCEPT ![c.u] = c.st.layer[c.u]]),
                  "restart_calls", c.log.restart_calls + 1),
           "service_restarts", c.log.service_restarts + 1)

\* Container.replan: Pebble restarts a running service whose configuration in the
\* plan differs from the one it was started with; the service of this charm has
\* startup disabled, so replan does not start it
Container_replan(c) ==
    LET c1 == SetLog(c, "replan_calls", c.log.replan_calls + 1)
    IN  IF c.st.service[c.u] = "active" /\ c.st.started_with[c.u] # c.st.layer[c.u]
        THEN SetLog(SetSt(c1, "started_with",
                          [c.st.started_with EXCEPT ![c.u] = c.st.layer[c.u]]),
                    "service_restarts", c.log.service_restarts + 1)
        ELSE c1

\* variant: the service is restarted whenever it is running
_restart_service_when_running(c, restart) ==
    IF c.env.pebble_fault = "restart" THEN Raise("Exception", c)
    ELSE IF c.st.service[c.u] = "active" THEN Ret(TRUE, Container_restart(c))
    ELSE Ret(TRUE, Container_start(c))

\* variant: a service that is not running is left to replan
_restart_service_replan_only(c, restart) ==
    IF c.env.pebble_fault = "restart" THEN Raise("Exception", c)
    ELSE Ret(TRUE, Container_replan(c))

\* PebbleService._restart_service: restart when asked to, start a service that is not
\* running, else replan
_restart_service(c, restart) ==
    IF c.env.pebble_fault = "restart" THEN Raise("Exception", c)
    ELSE IF restart THEN Ret(TRUE, Container_restart(c))
    ELSE IF c.st.service[c.u] # "active" THEN Ret(TRUE, Container_start(c))
    ELSE Ret(TRUE, Container_replan(c))

\* variant: a plan that logs the failure of the Pebble calls and returns
plan_swallowing_errors(c, layer) ==
    LET c1 == SetLog(SetLog(c, "plan_calls", c.log.plan_calls + 1),
                     "add_layer_calls", c.log.add_layer_calls + 1)
    IN  IF c.env.pebble_fault = "add_layer" THEN Ret(FALSE, c1)
        ELSE LET c2 == SetSt(c1, "layer", [c.st.layer EXCEPT ![c.u] = <<layer>>])
                 r == _restart_service(c2, FALSE)
             IN  IF r.exc # "none" THEN Ret(FALSE, r.c) ELSE r

\* PebbleService.plan: add_layer(combine=True), then _restart_service
plan(c, layer) ==
    LET c1 == SetLog(SetLog(c, "plan_calls", c.log.plan_calls + 1),
                     "add_layer_calls", c.log.add_layer_calls + 1)
    IN  IF c.env.pebble_fault = "add_layer" THEN Raise("pebble.Error", c1)
        ELSE LET c2 == SetSt(c1, "layer", [c.st.layer EXCEPT ![c.u] = <<layer>>])
                 r == _restart_service(c2, FALSE)
             IN  IF r.exc # "none" THEN Raise("PebbleError", r.c) ELSE r

(***************************************************************************)
(* src/src/charm.py: the ensure steps                                      *)
(***************************************************************************)
\* variant: the secret is created without asking for leadership
_ensure_secrets_no_leader_check(c) ==
    IF Secrets_is_ready(c) THEN Ret(TRUE, c)
    ELSE Ret(TRUE, Secrets_setitem(c, c.inp.token))

_ensure_secrets(c) ==
    IF Secrets_is_ready(c) THEN Ret(TRUE, c)
    ELSE IF is_leader(c) THEN Ret(TRUE, Secrets_setitem(c, c.inp.token))
    ELSE Ret(FALSE, c)

\* variant: every unit writes the data of the relation
_ensure_hydra_relation_no_leader_check(c) ==
    IF HydraHookIntegration_is_ready(c)
    THEN LET tok == Secrets_api_token(c)
         IN  IF tok.exc # "none" THEN Raise(tok.exc, c)
             ELSE Ret(TRUE, HydraHookIntegration_update_relation_data(
                                c, _hydra_hook_url(c), tok.value))
    ELSE Ret(TRUE, c)

_ensure_hydra_relation(c) ==
    IF is_leader(c) /\ HydraHookIntegration_is_ready(c)
    THEN LET tok == Secrets_api_token(c)
         IN  IF tok.exc # "none" THEN Raise(tok.exc, c)
             ELSE Ret(TRUE, HydraHookIntegration_update_relation_data(
                                c, _hydra_hook_url(c), tok.value))
    ELSE Ret(TRUE, c)

\* TraefikRouteRequirer.submit_to_traefik
submit_to_traefik(c, config) ==
    SetLog(SetSt(c, "route_config", config), "route_submits", c.log.route_submits + 1)

_ensure_internal_ingress(c) ==
    IF is_leader(c) /\ internal_ingress_is_ready(c)
    THEN Ret(TRUE, submit_to_traefik(c, InternalIngressData_load(c).config))
    ELSE Ret(TRUE, c)

\* variant: a failed migration is swallowed and the step reports success
_ensure_database_migration_ignoring_failure(c) ==
    LET ready == migration_is_ready(c)
        c1 == SetLog(c, "migration_checks", c.log.migration_checks + 1)
    IN  IF ready.exc # "none" THEN Raise(ready.exc, c1)
        ELSE IF ready.value THEN Ret(TRUE, c1)
        ELSE IF ~is_leader(c) THEN Ret(FALSE, c1)
        ELSE LET r == migrate_up(c1, DatabaseConfig_dsn(DatabaseConfig_load(c)))
             IN  Ret(TRUE, r.c)

\* variant: the leader migrates in every pass
_ensure_database_migration_always_migrating(c) ==
    LET ready == migration_is_ready(c)
        c1 == SetLog(c, "migration_checks", c.log.migration_checks + 1)
    IN  IF ready.exc # "none" THEN Raise(ready.exc, c1)
        ELSE IF ~is_leader(c) THEN Ret(ready.value, c1)
        ELSE LET r == migrate_up(c1, DatabaseConfig_dsn(DatabaseConfig_load(c)))
             IN  IF r.exc = "MigrationError" THEN Ret(FALSE, r.c) ELSE r

\* variant: a unit that is not the leader does not wait for the migration
_ensure_database_migration_not_waiting(c) ==
    LET ready == migration_is_ready(c)
        c1 == SetLog(c, "migration_checks", c.log.migration_checks + 1)
    IN  IF ready.exc # "none" THEN Raise(ready.exc, c1)
        ELSE IF ready.value THEN Ret(TRUE, c1)
        ELSE IF ~is_leader(c) THEN Ret(TRUE, c1)
        ELSE LET r == migrate_up(c1, DatabaseConfig_dsn(DatabaseConfig_load(c)))
             IN  IF r.exc = "MigrationError" THEN Ret(FALSE, r.c) ELSE r

_ensure_database_migration(c) ==
    LET ready == migration_is_ready(c)
        c1 == SetLog(c, "migration_checks", c.log.migration_checks + 1)
    IN  IF ready.exc # "none" THEN Raise(ready.exc, c1)
        ELSE IF ready.value THEN Ret(TRUE, c1)
        ELSE IF ~is_leader(c) THEN Ret(FALSE, c1)
        ELSE LET r == migrate_up(c1, DatabaseConfig_dsn(DatabaseConfig_load(c)))
             IN  IF r.exc = "MigrationError" THEN Ret(FALSE, r.c) ELSE r

\* variant: the record of the current version is not consulted
_ensure_openfga_model_no_record_check(c) ==
    IF ~OpenFGAIntegration_is_store_ready(c) THEN Ret(FALSE, c)
    ELSE IF ~peer_integration_exists(c) THEN Ret(FALSE, c)
    ELSE IF ~is_leader(c) THEN Ret(FALSE, c)
    ELSE LET r == WorkloadService_create_openfga_model(
                      c, OpenFGAIntegration_openfga_integration_data(c))
         IN  IF r.exc = "CreateFgaStoreError" THEN Ret(FALSE, r.c)
             ELSE IF r.exc # "none" THEN Raise(r.exc, r.c)
             ELSE Ret(TRUE, PeerData_setitem(r.c, WorkloadService_version(c), r.value))

\* variant: a unit that is not the leader goes on without a recorded model
_ensure_openfga_model_not_waiting(c) ==
    IF ~OpenFGAIntegration_is_store_ready(c) THEN Ret(FALSE, c)
    ELSE IF ~peer_integration_exists(c) THEN Ret(FALSE, c)
    ELSE IF PeerData_getitem(c, WorkloadService_version(c)) # "" THEN Ret(TRUE, c)
    ELSE IF ~is_leader(c) THEN Ret(TRUE, c)
    ELSE LET r == WorkloadService_create_openfga_model(
                      c, OpenFGAIntegration_openfga_integration_data(c))
         IN  IF r.exc = "CreateFgaStoreError" THEN Ret(FALSE, r.c)
             ELSE IF r.exc # "none" THEN Raise(r.exc, r.c)
             ELSE Ret(TRUE, PeerData_setitem(r.c, WorkloadService_version(c), r.value))

\* variant: the peer relation is not asked for
_ensure_openfga_model_no_peer_check(c) ==
    IF ~OpenFGAIntegration_is_store_ready(c) THEN Ret(FALSE, c)
    ELSE IF PeerData_getitem(c, WorkloadService_version(c)) # "" THEN Ret(TRUE, c)
    ELSE IF ~is_leader(c) THEN Ret(FALSE, c)
    ELSE LET r == WorkloadService_create_openfga_model(
                      c, OpenFGAIntegration_openfga_integration_data(c))
         IN  IF r.exc = "CreateFgaStoreError" THEN Ret(FALSE, r.c)
             ELSE IF r.exc # "none" THEN Raise(r.exc, r.c)
             ELSE Ret(TRUE, PeerData_setitem(r.c, WorkloadService_version(c), r.value))

_ensure_openfga_model(c) ==
    IF ~OpenFGAIntegration_is_store_ready(c) THEN Ret(FALSE, c)
    ELSE IF ~peer_integration_exists(c) THEN Ret(FALSE, c)
    ELSE IF PeerData_getitem(c, WorkloadService_version(c)) # "" THEN Ret(TRUE, c)
    ELSE IF ~is_leader(c) THEN Ret(FALSE, c)
    ELSE LET r == WorkloadService_create_openfga_model(
                      c, OpenFGAIntegration_openfga_integration_data(c))
         IN  IF r.exc = "CreateFgaStoreError" THEN Ret(FALSE, r.c)
             ELSE IF r.exc # "none" THEN Raise(r.exc, r.c)
             ELSE Ret(TRUE, PeerData_setitem(r.c, WorkloadService_version(c), r.value))

_ensure_tls(c) ==
    LET certificates == TLSCertificates_load(c)
        c1 == IF certificates # ""
              THEN SetSt(c, "cert_file",
                         [c.st.cert_file EXCEPT ![c.u] = [exists |-> TRUE, text |-> certificates]])
              ELSE IF c.st.cert_file[c.u].exists
              THEN SetSt(c, "cert_file",
                         [c.st.cert_file EXCEPT ![c.u] = [exists |-> FALSE, text |-> ""]])
              ELSE c
    IN  Ret(TRUE, WorkloadService_update_ca_certs(c1))

(***************************************************************************)
(* src/src/charm.py: _holistic_handler                                     *)
(***************************************************************************)
\* f() for the f of the loop
CallStep(name, c) ==
    CASE name = "_ensure_secrets" -> _ensure_secrets(c)
      [] name = "_ensure_hydra_relation" -> _ensure_hydra_relation(c)
      [] name = "_ensure_internal_ingress" -> _ensure_internal_ingress(c)
      [] name = "_ensure_database_migration" -> _ensure_database_migration(c)
      [] name = "_ensure_openfga_model" -> _ensure_openfga_model(c)
      [] name = "_ensure_tls" -> _ensure_tls(c)

\* The body of the loop: can_plan = can_plan and f(), a CharmError sets can_plan
\* to False.  Python's `and` does not evaluate f() once can_plan is False.
EnsureLoopBody(acc, name) ==
    IF acc.exc # "none" THEN acc
    ELSE IF ~acc.can_plan THEN acc
    ELSE Only({
             LET outcome == IF r.exc # "none" THEN r.exc ELSE IF r.ok THEN "ok" ELSE "fail"
                 c1 == SetLog(r.c, "results", Append(r.c.log.results, outcome))
             IN  IF r.exc = "none" THEN [can_plan |-> r.ok, exc |-> "none", c |-> c1]
                 ELSE IF r.exc \in CharmErrors
                 THEN [can_plan |-> FALSE, exc |-> "none", c |-> c1]
                 ELSE [can_plan |-> FALSE, exc |-> r.exc, c |-> c1]
             : r \in {CallStep(name, SetLog(acc.c, "steps", Append(acc.c.log.steps, name)))} })

RECURSIVE EnsureLoop(_, _)
EnsureLoop(acc, i) ==
    IF i > Len(EnsureSteps) THEN acc
    ELSE Only({ EnsureLoop(next, i + 1) : next \in {EnsureLoopBody(acc, EnsureSteps[i])} })

\* what the handler finds when it starts: recorded in the trace, changes nothing
AtStart(c) ==
    LET ready == migration_is_ready(c)
    IN  [c EXCEPT !.log.secret_at_start = Secrets_getitem(c),
                  !.log.record_at_start = PeerData_getitem(c, WorkloadService_version(c)),
                  !.log.check_out = ExecMigrateCheck(c),
                  !.log.up_failures_at_start = c.st.up_failures,
                  !.log.check_at_start =
                      IF ready.exc # "none" THEN "raises"
                      ELSE IF ready.value THEN "ready" ELSE "not_ready"]

\* _holistic_handler once the gate has passed: the loop, then the layer and plan
ApplyPlan(acc) ==
    IF acc.exc # "none" THEN SetLog(acc.c, "exc", acc.exc)
    ELSE IF ~acc.can_plan THEN acc.c
    ELSE Only({ IF l.exc # "none" THEN SetLog(l.c, "exc", l.exc)
                ELSE Only({ SetLog(r.c, "exc", r.exc) : r \in {plan(l.c, l.layer)} })
                : l \in {_pebble_layer(SetLog(acc.c, "can_plan", TRUE))} })

_holistic_handler(c) ==
    Only({ IF ~gate_passes(c0) THEN SetLog(c0, "gate", FALSE)
           ELSE Only({ ApplyPlan(acc)
                       : acc \in {EnsureLoop([can_plan |-> TRUE, exc |-> "none",
                                              c |-> SetLog(c0, "gate", TRUE)], 1)} })
           : c0 \in {AtStart(SetLog(c, "holistic_calls", c.log.holistic_calls + 1))} })

(***************************************************************************)
(* src/src/charm.py: the event handlers                                    *)
(***************************************************************************)
_on_config_changed(c) == _holistic_handler(c)

\* variant: every unit pops the record
_on_openfga_store_removed_no_leader_check(c) ==
    Only({ _holistic_handler(c1) : c1 \in {PeerData_pop(c, WorkloadService_version(c))} })

_on_openfga_store_removed(c) ==
    Only({ _holistic_handler(c1)
           : c1 \in {IF is_leader(c) THEN PeerData_pop(c, WorkloadService_version(c)) ELSE c} })

\* WorkloadService.open_port and set_version
WorkloadService_open_port(c) == SetLog(c, "open_port_calls", c.log.open_port_calls + 1)
WorkloadService_set_version(c) == SetLog(c, "set_version_calls", c.log.set_version_calls + 1)

\* the version is set when the handler returned
_on_pebble_ready(c) ==
    Only({ IF c1.log.exc # "none" THEN c1 ELSE WorkloadService_set_version(c1)
           : c1 \in {_holistic_handler(WorkloadService_open_port(c))} })

\* _on_pebble_check_failed and _on_pebble_check_recovered write to the log of the charm
_on_pebble_check_failed(c) == c
_on_pebble_check_recovered(c) == c

\* the events the charm observes with a handler that charm.py defines; collect-status
\* is handled by _on_collect_status, which the framework calls after every handler
AllEvents ==
    { "config_changed", "leader_elected", "leader_settings_changed", "secret_changed",
      "pebble_ready", "database_created", "database_endpoints_changed",
      "database_relation_broken", "internal_route_relation_joined",
      "internal_route_relation_changed", "internal_route_relation_broken",
      "openfga_store_created", "openfga_store_removed", "certificate_set_updated",
      "certificates_removed", "hydra_hook_ready", "resource_patch_failed",
      "pebble_check_failed", "pebble_check_recovered", "collect_status" }

\* variant: a failed check of the workload reconciles
Handle_reconciling_on_check_failed(event, c) ==
    CASE event = "openfga_store_removed" -> _on_openfga_store_removed(c)
      [] event = "pebble_ready" -> _on_pebble_ready(c)
      [] event \in {"pebble_check_recovered", "collect_status"} -> c
      [] OTHER -> _holistic_handler(c)

\* framework.observe: the handler of the event.  The handlers of the events of the
\* last arm are _holistic_handler(event) and nothing else
Handle(event, c) ==
    CASE event = "config_changed" -> _on_config_changed(c)
      [] event = "openfga_store_removed" -> _on_openfga_store_removed(c)
      [] event = "pebble_ready" -> _on_pebble_ready(c)
      [] event = "pebble_check_failed" -> _on_pebble_check_failed(c)
      [] event = "pebble_check_recovered" -> _on_pebble_check_recovered(c)
      [] event = "collect_status" -> c
      [] event \in { "leader_elected", "leader_settings_changed", "secret_changed",
                     "database_created", "database_endpoints_changed",
                     "database_relation_broken", "internal_route_relation_joined",
                     "internal_route_relation_changed", "internal_route_relation_broken",
                     "openfga_store_created", "certificate_set_updated",
                     "certificates_removed", "hydra_hook_ready",
                     "resource_patch_failed" } -> _holistic_handler(c)

(***************************************************************************)
(* src/src/charm.py: _on_collect_status.  A status is [name, message];     *)
(* the handler adds statuses and the framework sets the one of the highest *)
(* priority, the first added among equals.                                 *)
(***************************************************************************)
ActiveStatus == [name |-> "active", message |-> ""]
WaitingStatus(message) == [name |-> "waiting", message |-> message]
BlockedStatus(message) == [name |-> "blocked", message |-> message]

\* ops StatusBase._priority
StatusPriority(status) ==
    CASE status.name = "error" -> 5
      [] status.name = "blocked" -> 4
      [] status.name = "maintenance" -> 3
      [] status.name = "waiting" -> 2
      [] status.name = "active" -> 1
      [] OTHER -> 0

\* variant: the status added first is the one reported
get_first_status(statuses) == statuses[1]

\* ops StatusBase._get_highest_priority: max() keeps the first of the highest
get_highest_priority(statuses) ==
    LET best == CHOOSE i \in 1..Len(statuses) :
                    /\ \A j \in 1..Len(statuses) :
                           StatusPriority(statuses[j]) <= StatusPriority(statuses[i])
                    /\ \A j \in 1..(i - 1) :
                           StatusPriority(statuses[j]) < StatusPriority(statuses[i])
    IN  statuses[best]

\* str() of a Python list of strings
RECURSIVE ListItems(_)
ListItems(keys) ==
    IF keys = <<>> THEN ""
    ELSE IF Len(keys) = 1 THEN "'" \o keys[1] \o "'"
    ELSE "'" \o keys[1] \o "', " \o ListItems(Tail(keys))

ListRepr(keys) == "[" \o ListItems(keys) \o "]"

\* variant: the ready check of the workload is not consulted
WorkloadService_never_failing(c) == FALSE

\* WorkloadService.is_failing: the service is in the plan and its ready check failed
WorkloadService_is_failing(c) ==
    /\ c.env.can_connect[c.u]
    /\ c.st.layer[c.u] # <<>>
    /\ c.env.health_failing

\* KubernetesComputeResourcesPatch.get_status
resources_patch_get_status(c) ==
    IF c.env.patch_failed THEN BlockedStatus("Resource patch failed") ELSE ActiveStatus

\* variant: the same message on every unit
_get_migration_status_same_on_all_units(c) ==
    Only({ IF ready.exc # "none" THEN [exc |-> ready.exc, statuses |-> <<>>]
           ELSE IF ~ready.value
           THEN [exc |-> "none",
                 statuses |-> <<WaitingStatus("Waiting for database migration")>>]
           ELSE [exc |-> "none", statuses |-> <<>>]
           : ready \in {migration_is_ready(c)} })

\* charm._get_migration_status: <<>> stands for None
_get_migration_status(c) ==
    Only({ IF ready.exc = "MigrationCheckError"
           THEN [exc |-> "none",
                 statuses |-> <<BlockedStatus("Migration check failed: "
                                              \o "Failed to check migration status")>>]
           ELSE IF ready.exc # "none" THEN [exc |-> ready.exc, statuses |-> <<>>]
           ELSE IF ~ready.value
           THEN IF is_leader(c)
                THEN [exc |-> "none",
                      statuses |-> <<WaitingStatus("Waiting for database migration")>>]
                ELSE [exc |-> "none",
                      statuses |-> <<WaitingStatus(
                                       "Waiting for leader unit to run the migration")>>]
           ELSE [exc |-> "none", statuses |-> <<>>]
           : ready \in {migration_is_ready(c)} })

\* the statuses the handler adds before it asks for the migration status
StatusesBeforeMigration(c) ==
    LET can_connect == container_connectivity(c)
        configs == get_missing_config_keys(c.env.config)
    IN  (IF ~can_connect THEN <<WaitingStatus("Container is not connected yet")>> ELSE <<>>)
        \o (IF configs # <<>>
            THEN <<BlockedStatus("Missing required configuration: " \o ListRepr(configs))>>
            ELSE <<>>)
        \o (IF ~Secrets_is_ready(c)
            THEN <<WaitingStatus("Waiting for secrets creation")>> ELSE <<>>)
        \o (IF can_connect /\ WorkloadService_is_failing(c)
            THEN <<BlockedStatus("Failed to start the service, please check the "
                                 \o WORKLOAD_CONTAINER \o " container logs")>>
            ELSE <<>>)
        \o (IF ~database_integration_exists(c)
            THEN <<BlockedStatus("Missing integration " \o DATABASE_INTEGRATION_NAME)>>
            ELSE <<>>)
        \o (IF ~database_resource_is_created(c)
            THEN <<WaitingStatus("Waiting for database creation")>> ELSE <<>>)
        \o (IF ~openfga_integration_exists(c)
            THEN <<BlockedStatus("Missing integration " \o OPENFGA_INTEGRATION_NAME)>>
            ELSE <<>>)
        \o (IF ~OpenFGAIntegration_is_store_ready(c)
            THEN <<WaitingStatus("Waiting for openfga store to be created")>> ELSE <<>>)

\* variant: a handler that creates the missing secret while it reports
_on_collect_status_creating_secret(c) ==
    [ exc |-> "none", statuses |-> <<ActiveStatus>>,
      c |-> IF Secrets_is_ready(c) THEN c ELSE Secrets_setitem(c, "t1") ]

\* charm._on_collect_status: the statuses added, in the order of the calls, or the
\* exception that leaves the handler; c is the context after the handler
_on_collect_status(c) ==
    Only({ IF migration.exc # "none"
           THEN [exc |-> migration.exc, statuses |-> <<>>, c |-> c]
           ELSE [ exc |-> "none", c |-> c,
                  statuses |-> StatusesBeforeMigration(c) \o migration.statuses
                               \o <<resources_patch_get_status(c), ActiveStatus>> ]
           : migration \in {_get_migration_status(c)} })

\* ops: after a handler that returned, the framework emits collect-status and sets
\* the unit status; a handler that raised fails the hook and no status is set
EvaluateStatus(c) ==
    IF c.log.exc # "none" THEN c
    ELSE Only({ IF r.exc # "none" THEN SetLog(r.c, "status_exc", r.exc)
                ELSE SetLog(r.c, "status", get_highest_priority(r.statuses))
                : r \in {_on_collect_status(c)} })

(***************************************************************************)
(* The state machine.                                                      *)
(***************************************************************************)
InitEnv ==
    [ leader |-> "u0",
      can_connect |-> [u \in Units |-> TRUE],
      version |-> [u \in Units |-> "1.10.0"],
      database |-> "created",
      db_data |-> [endpoints |-> <<"h1:5432", ",", "h2:5432">>, username |-> "u",
                   password |-> "p"],
      config |-> DefaultConfig,
      oauth |-> FALSE,
      openfga |-> "ready",
      peer |-> TRUE,
      hydra |-> TRUE,
      route |-> "ready",
      certs_v1 |-> {},
      certs_v0 |-> {},
      tracing |-> FALSE,
      check_fault |-> "none",
      up_fault |-> FALSE,
      fga_fault |-> "none",
      pebble_fault |-> "none",
      health_failing |-> FALSE,
      patch_failed |-> FALSE,
      slow |-> [cmd |-> "none", seconds |-> 0] ]

InitSt ==
    [ secret |-> "",
      secrets_created |-> 0,
      peer_data |-> [v \in Versions |-> ""],
      hydra_data |-> <<>>,
      route_config |-> "",
      migrated |-> FALSE,
      up_failures |-> 0,
      cert_file |-> [u \in Units |-> [exists |-> FALSE, text |-> ""]],
      layer |-> [u \in Units |-> <<>>],
      service |-> [u \in Units |-> "inactive"],
      started_with |-> [u \in Units |-> <<>>] ]

Init ==
    /\ env = InitEnv
    /\ st = InitSt
    /\ last = NoPass
    /\ changes = 0

\* the event is delivered to unit u and its handler runs to completion
Deliver(u, event, token, model_id) ==
    \E handled \in {Handle(event,
                     [ u |-> u, env |-> env, st |-> st,
                       inp |-> [token |-> token, model_id |-> model_id],
                       log |-> [NoPass EXCEPT !.kind = "pass", !.event = event, !.unit = u,
                                              !.leader = (env.leader = u)] ])} :
      \E c \in {EvaluateStatus(handled)} :
        /\ st' = c.st
        /\ last' = c.log
        /\ UNCHANGED <<env, changes>>

\* token_hex(16) and the id the provisioning command prints are drawn by the run;
\* a run that has a secret, or a recorded model, does not read them
OnEvent ==
    \E u \in Units, event \in Events :
        \E token \in IF st.secret = "" THEN Tokens ELSE {"t1"},
           model_id \in IF st.peer_data[env.version[u]] = "" \/ event = "openfga_store_removed"
                        THEN ModelIds ELSE {"m1"} :
            Deliver(u, event, token, model_id)

\* the environment changes one of the inputs of the charm
EnvChange(f, v) ==
    /\ changes < MaxEnvChanges
    /\ env[f] # v
    /\ env' = [env EXCEPT ![f] = v]
    /\ changes' = changes + 1
    /\ last' = NoPass
    /\ UNCHANGED st

LeaderChanges == \E u \in Units : EnvChange("leader", u)
ConnectivityChanges ==
    \E u \in Units : EnvChange("can_connect", [env.can_connect EXCEPT ![u] = ~@])
WorkloadUpgrades ==
    \E u \in Units, v \in Versions : EnvChange("version", [env.version EXCEPT ![u] = v])
DatabaseChanges == \E v \in DatabaseStates : EnvChange("database", v)
DatabaseDataChanges == \E v \in DbDatas : EnvChange("db_data", v)
ConfigChanges == \E v \in Configs : EnvChange("config", v)
OauthChanges == \E v \in BOOLEAN : EnvChange("oauth", v)
OpenfgaChanges == \E v \in OpenfgaStates : EnvChange("openfga", v)
PeerChanges == \E v \in BOOLEAN : EnvChange("peer", v)
HydraChanges == \E v \in BOOLEAN : EnvChange("hydra", v)
RouteChanges == \E v \in RouteStates : EnvChange("route", v)
CertificatesV1Change == \E v \in SUBSET CAs : EnvChange("certs_v1", v)
CertificatesV0Change == \E v \in {{}, {"ca1"}} : EnvChange("certs_v0", v)
TracingChanges == \E v \in BOOLEAN : EnvChange("tracing", v)
CheckFaultChanges == \E v \in CheckFaults : EnvChange("check_fault", v)
UpFaultChanges == \E v \in BOOLEAN : EnvChange("up_fault", v)
FgaFaultChanges == \E v \in FgaFaults : EnvChange("fga_fault", v)
PebbleFaultChanges == \E v \in PebbleFaults : EnvChange("pebble_fault", v)
HealthChanges == \E v \in BOOLEAN : EnvChange("health_failing", v)
ResourcePatchChanges == \E v \in BOOLEAN : EnvChange("patch_failed", v)
CommandDurationChanges == \E v \in SlowCommands : EnvChange("slow", v)

Next ==
    \/ OnEvent
    \/ LeaderChanges
    \/ ConnectivityChanges
    \/ WorkloadUpgrades
    \/ DatabaseChanges
    \/ DatabaseDataChanges
    \/ ConfigChanges
    \/ OauthChanges
    \/ OpenfgaChanges
    \/ PeerChanges
    \/ HydraChanges
    \/ RouteChanges
    \/ CertificatesV1Change
    \/ CertificatesV0Change
    \/ TracingChanges
    \/ CheckFaultChanges
    \/ UpFaultChanges
    \/ FgaFaultChanges
    \/ PebbleFaultChanges
    \/ HealthChanges
    \/ ResourcePatchChanges
    \/ CommandDurationChanges

Spec == Init /\ [][Next]_vars

(***************************************************************************)
(* The status projection on its own: collect-status is evaluated on every  *)
(* combination of the inputs it reads, over the states the handler leaves  *)
(* behind.                                                                  *)
(***************************************************************************)
\* the state a config-changed pass on unit u leaves, from state s under environment e
StateAfterPass(u, e, s) ==
    Handle("config_changed",
           [ u |-> u, env |-> e, st |-> s, inp |-> [token |-> "t1", model_id |-> "m1"],
             log |-> [NoPass EXCEPT !.kind = "pass", !.unit = u] ]).st

\* nothing done yet; the leader stopped at a failing migration; the leader stopped at
\* a failing model creation; the leader planned its workload; both units planned
StatusSts ==
    { InitSt,
      StateAfterPass("u0", [InitEnv EXCEPT !.up_fault = TRUE], InitSt),
      StateAfterPass("u0", [InitEnv EXCEPT !.fga_fault = "exec_error"], InitSt),
      StateAfterPass("u0", InitEnv, InitSt),
      StateAfterPass("u1", InitEnv, StateAfterPass("u0", InitEnv, InitSt)) }

\* every combination of the inputs _on_collect_status reads
StatusEnvs ==
    { [InitEnv EXCEPT !.leader = leader, !.can_connect = can_connect, !.config = config,
                      !.database = database, !.openfga = openfga,
                      !.check_fault = check_fault, !.health_failing = health_failing,
                      !.patch_failed = patch_failed] :
        leader \in Units, can_connect \in [Units -> BOOLEAN], config \in Configs,
        database \in DatabaseStates, openfga \in OpenfgaStates,
        check_fault \in CheckFaults, health_failing \in BOOLEAN,
        patch_failed \in BOOLEAN }

InitStatus ==
    /\ env \in StatusEnvs
    /\ st \in StatusSts
    /\ last = NoPass
    /\ changes = 0

\* the framework emits collect-status on unit u
CollectStatus(u) ==
    \E c \in {EvaluateStatus(
                 [ u |-> u, env |-> env, st |-> st,
                   inp |-> [token |-> "t1", model_id |-> "m1"],
                   log |-> [NoPass EXCEPT !.kind = "status",
                                          !.event = "collect_unit_status", !.unit = u,
                                          !.leader = (env.leader = u)] ])} :
        /\ st' = c.st
        /\ last' = c.log
        /\ UNCHANGED <<env, changes>>

OnCollectStatus == \E u \in Units : CollectStatus(u)

NextStatus == OnCollectStatus

SpecStatus == InitStatus /\ [][NextStatus]_vars

(***************************************************************************)
(* Interrupted passes: the process that runs the handler is stopped (the   *)
(* unit agent or the pod dies) at a point of the loop, and the event is    *)
(* delivered again.                                                        *)
(***************************************************************************)
\* the points where a pass is stopped: after `steps` steps of the loop have run, or,
\* with in_provisioning, inside _ensure_openfga_model between the return of
\* create_openfga_model and the assignment to the peer data
AbortPoints ==
    { [steps |-> k, in_provisioning |-> FALSE] : k \in 0..Len(EnsureSteps) }
    \cup { [steps |-> 4, in_provisioning |-> TRUE] }

\* the loop of _holistic_handler from step i up to step k
RECURSIVE EnsureLoopUntil(_, _, _)
EnsureLoopUntil(acc, i, k) ==
    IF i > k THEN acc
    ELSE Only({ EnsureLoopUntil(next, i + 1, k) : next \in {EnsureLoopBody(acc, EnsureSteps[i])} })

\* _ensure_openfga_model up to the return of create_openfga_model
ProvisioningUntilCreated(acc) ==
    LET c == acc.c
    IN  IF acc.exc # "none" \/ ~acc.can_plan THEN c
        ELSE IF ~OpenFGAIntegration_is_store_ready(c) THEN c
        ELSE IF ~peer_integration_exists(c) THEN c
        ELSE IF PeerData_getitem(c, WorkloadService_version(c)) # "" THEN c
        ELSE IF ~is_leader(c) THEN c
        ELSE WorkloadService_create_openfga_model(
                 SetLog(c, "steps", Append(c.log.steps, "_ensure_openfga_model")),
                 OpenFGAIntegration_openfga_integration_data(c)).c

\* _holistic_handler stopped at point: nothing after the point runs
InterruptedPass(c, point) ==
    Only({ IF ~gate_passes(c0) THEN SetLog(c0, "gate", FALSE)
           ELSE Only({ IF point.in_provisioning THEN ProvisioningUntilCreated(acc) ELSE acc.c
                       : acc \in {EnsureLoopUntil([can_plan |-> TRUE, exc |-> "none",
                                                   c |-> SetLog(c0, "gate", TRUE)],
                                                  1, point.steps)} })
           : c0 \in {AtStart(c)} })

\* the environments of the interrupted passes: the gate passes in all of them
RerunEnvs ==
    { [InitEnv EXCEPT !.leader = leader, !.openfga = openfga,
                      !.check_fault = check_fault, !.up_fault = up_fault,
                      !.fga_fault = fga_fault, !.pebble_fault = pebble_fault] :
        leader \in Units, openfga \in {"store_no_token", "ready"},
        check_fault \in CheckFaults, up_fault \in BOOLEAN, fga_fault \in FgaFaults,
        pebble_fault \in {"none", "restart"} }

InitRerun ==
    /\ env \in RerunEnvs
    /\ st \in StatusSts
    /\ last = NoPass
    /\ changes = 0

\* a config-changed pass on unit u is stopped at point; the trace keeps the state the
\* pass started from
Interrupt(u, point, token, model_id) ==
    \E c \in {InterruptedPass(
                 [ u |-> u, env |-> env, st |-> st,
                   inp |-> [token |-> token, model_id |-> model_id],
                   log |-> [NoPass EXCEPT !.kind = "aborted", !.event = "config_changed",
                                          !.unit = u, !.leader = (env.leader = u),
                                          !.st_before = st] ],
                 point)} :
        /\ st' = c.st
        /\ last' = c.log
        /\ UNCHANGED <<env, changes>>

OnInterrupt ==
    /\ last.kind = "none"
    /\ \E u \in Units, point \in AbortPoints :
           \E token \in IF st.secret = "" THEN Tokens ELSE {"t1"},
              model_id \in IF st.peer_data[env.version[u]] = "" THEN ModelIds ELSE {"m1"} :
               Interrupt(u, point, token, model_id)

\* the event of the interrupted pass is delivered again to the same unit
OnRerun ==
    /\ last.kind = "aborted"
    /\ \E token \in IF st.secret = "" THEN Tokens ELSE {"t1"},
          model_id \in IF st.peer_data[env.version[last.unit]] = "" THEN ModelIds ELSE {"m1"} :
           Deliver(last.unit, last.event, token, model_id)

NextRerun ==
    \/ OnInterrupt
    \/ OnRerun

SpecRerun == InitRerun /\ [][NextRerun]_vars

(***************************************************************************)
(* Passes of two units that overlap: the hooks of different units run in   *)
(* different pods at the same time.  The pass of a unit that is not the    *)
(* leader is at a point of its loop while another unit runs a handler.     *)
(***************************************************************************)
\* _holistic_handler from the point the trace of c has reached to its end
ResumedPass(c) ==
    IF ~c.log.gate THEN c
    ELSE LET results == c.log.results
             raised == {i \in 1..Len(results) : results[i] \notin {"ok", "fail"} \cup CharmErrors}
         IN  Only({ Only({ ApplyPlan(done) : done \in {EnsureLoop(acc, Len(c.log.steps) + 1)} })
                    : acc \in {[ can_plan |-> \A i \in 1..Len(results) : results[i] = "ok",
                                 exc |-> IF raised = {} THEN "none"
                                         ELSE results[CHOOSE i \in raised : TRUE],
                                 c |-> c ]} })

\* while the pass of a unit that is not the leader is at its point, another unit
\* handles an event.  ops reads the data of a relation once in a hook: a pass that has
\* read the peer data keeps what it read
OnOtherUnitActs ==
    /\ last.kind = "aborted" /\ ~last.leader
    /\ Len(last.results) = Len(last.steps)
    /\ changes < MaxEnvChanges
    /\ \E v \in Units \ {last.unit}, event \in Events :
           \E token \in IF st.secret = "" THEN Tokens ELSE {"t1"},
              model_id \in ModelIds :
               \E c \in {EvaluateStatus(Handle(event,
                              [ u |-> v, env |-> env, st |-> st,
                                inp |-> [token |-> token, model_id |-> model_id],
                                log |-> [NoPass EXCEPT !.kind = "pass", !.event = event,
                                                       !.unit = v,
                                                       !.leader = (env.leader = v)] ]))} :
                   /\ st' = c.st
                   /\ last' = [last EXCEPT !.peer_cache =
                                   IF last.peer_cache # <<>> THEN last.peer_cache
                                   ELSE IF /\ \E i \in 1..Len(last.steps) :
                                                 last.steps[i] = "_ensure_openfga_model"
                                           /\ env.openfga \in {"store_no_token", "ready"}
                                           /\ env.peer
                                   THEN <<st.peer_data>> ELSE <<>>]
                   /\ changes' = changes + 1
                   /\ UNCHANGED env

\* the pass goes on from its point to its end
OnResume ==
    /\ last.kind = "aborted" /\ ~last.leader
    /\ Len(last.results) = Len(last.steps)
    /\ \E c \in {EvaluateStatus(ResumedPass(
                      [ u |-> last.unit, env |-> env,
                        st |-> IF last.peer_cache # <<>>
                               THEN [st EXCEPT !.peer_data = last.peer_cache[1]] ELSE st,
                        inp |-> [token |-> "t1", model_id |-> "m1"],
                        log |-> [last EXCEPT !.kind = "pass"] ]))} :
           /\ st' = [c.st EXCEPT !.peer_data = st.peer_data]
           /\ last' = c.log
           /\ UNCHANGED <<env, changes>>

SpecInterleave == InitRerun /\ [][OnInterrupt \/ OnOtherUnitActs \/ OnResume]_vars

(***************************************************************************)
(* Rendering on its own: one process renders the layer again and again     *)
(* while the inputs of the render change; last.layer_dict is the           *)
(* dictionary its PebbleService holds.                                     *)
(***************************************************************************)
\* every combination of the inputs the sources of the layer read from the environment
RenderEnvs ==
    { [InitEnv EXCEPT !.tracing = tracing, !.config = config, !.openfga = openfga,
                      !.db_data = db_data] :
        tracing \in BOOLEAN, config \in Configs, openfga \in {"none", "ready"},
        db_data \in DbDatas }

InitRender ==
    /\ env \in RenderEnvs
    /\ st \in StatusSts
    /\ last = NoPass
    /\ changes = 0

\* the process evaluates self._pebble_layer on unit u
Render(u) ==
    \E l \in {_pebble_layer(
                 [ u |-> u, env |-> env, st |-> st,
                   inp |-> [token |-> "t1", model_id |-> "m1"],
                   log |-> [NoPass EXCEPT !.kind = "render", !.unit = u,
                                          !.layer_dict_at_start = last.layer_dict,
                                          !.layer_dict = last.layer_dict] ])} :
        /\ last' = [l.c.log EXCEPT !.exc = l.exc]
        /\ UNCHANGED <<env, st, changes>>

OnRender == \E u \in Units : Render(u)

\* an input of the render changes; the dictionary of the process stays
RenderInputChanges ==
    /\ \E e \in RenderEnvs, s \in StatusSts :
           /\ \/ e = env /\ s # st
              \/ s = st /\ \E f \in {"tracing", "config", "openfga", "db_data"} :
                               e = [env EXCEPT ![f] = e[f]] /\ e # env
           /\ env' = e
           /\ st' = s
    /\ last' = [NoPass EXCEPT !.layer_dict = last.layer_dict]
    /\ UNCHANGED changes

NextRender ==
    \/ OnRender
    \/ RenderInputChanges

SpecRender == InitRender /\ [][NextRender]_vars

(***************************************************************************)
(* Every observed event, delivered to a unit in the environments in which  *)
(* the gate passes or the container cannot be reached.                     *)
(***************************************************************************)
EventEnvs ==
    { [InitEnv EXCEPT !.leader = leader, !.can_connect["u0"] = can_connect,
                      !.pebble_fault = pebble_fault] :
        leader \in Units, can_connect \in BOOLEAN, pebble_fault \in {"none", "restart"} }

InitEvents ==
    /\ env \in EventEnvs
    /\ st \in StatusSts
    /\ last = NoPass
    /\ changes = 0

\* one of the observed events is delivered to a unit
OnAnyEvent ==
    \E u \in Units, event \in AllEvents :
        \E token \in IF st.secret = "" THEN Tokens ELSE {"t1"},
           model_id \in IF st.peer_data[env.version[u]] = "" \/ event = "openfga_store_removed"
                        THEN ModelIds ELSE {"m1"} :
            Deliver(u, event, token, model_id)

SpecEvents == InitEvents /\ [][OnAnyEvent]_vars

(***************************************************************************)
(* DatabaseConfig.load and dsn over the relation data of the database      *)
(* integration.                                                            *)
(***************************************************************************)
DsnEnvs ==
    { [InitEnv EXCEPT !.database = database,
                      !.db_data = [endpoints |-> endpoints, username |-> username,
                                   password |-> password]] :
        database \in DatabaseStates,
        endpoints \in { <<>>, <<"h1:5432">>, <<"h1:5432", ",", "h2:5432">>,
                        <<",", "h2:5432">>, <<"h1:5432", ",">>,
                        <<"h1:5432", ",", "h2:5432", ",", "h3:5432">> },
        username \in {"", "u", "v"}, password \in {"", "p", "q"} }

InitDsn ==
    /\ env \in DsnEnvs
    /\ st = InitSt
    /\ last = NoPass
    /\ changes = 0

\* a unit loads the DatabaseConfig of the integration and reads its dsn
OnLoadDsn ==
    \E u \in Units :
        /\ last.kind = "none"
        /\ last' = [NoPass EXCEPT !.kind = "dsn", !.unit = u,
                                  !.dsn = DatabaseConfig_dsn(DatabaseConfig_load(
                                              [u |-> u, env |-> env, st |-> st, log |-> NoPass,
                                               inp |-> [token |-> "t1", model_id |-> "m1"]]))]
        /\ UNCHANGED <<env, st, changes>>

SpecDsn == InitDsn /\ [][OnLoadDsn]_vars

(***************************************************************************)
(* A settled deployment: the environment keeps the gate open and no        *)
(* command fails; Juju keeps delivering hooks to every unit (update-status *)
(* and the relation events), so the handler of each unit runs again and    *)
(* again.                                                                  *)
(***************************************************************************)
\* the environments in which the gate passes on every unit, the openfga store is
\* ready, the peer relation exists and no command or Pebble call fails
SettledEnvs ==
    { e \in { [InitEnv EXCEPT !.leader = leader, !.config = config,
                              !.version["u1"] = version, !.hydra = hydra,
                              !.oauth = oauth] :
                leader \in Units, config \in Configs, version \in Versions,
                hydra \in BOOLEAN, oauth \in BOOLEAN } :
        \A u \in Units : gate_passes([u |-> u, env |-> e]) }

InitSettled ==
    /\ env \in SettledEnvs
    /\ st = InitSt
    /\ last = NoPass
    /\ changes = 0

\* a hook that runs the holistic handler is delivered to unit u
OnHookAt(u) ==
    \E token \in IF st.secret = "" THEN Tokens ELSE {"t1"},
       model_id \in IF st.peer_data[env.version[u]] = "" THEN ModelIds ELSE {"m1"} :
        Deliver(u, "config_changed", token, model_id)

OnHookAtLeader == OnHookAt(env.leader)

OnHookAtOther == \E u \in Units \ {env.leader} : OnHookAt(u)

SpecSettled ==
    /\ InitSettled
    /\ [][OnHookAtLeader \/ OnHookAtOther]_vars
    /\ WF_vars(OnHookAtLeader)
    /\ WF_vars(OnHookAtOther)

(***************************************************************************)
(* Properties.  `last` is the trace of the handler run that produced the   *)
(* current state, and env is the environment that run saw: a change of the *)
(* environment resets the trace.                                           *)
(***************************************************************************)
\* the context of the run `last` describes, as its handler left it
PassCtx ==
    [ u |-> last.unit, env |-> env, st |-> st, log |-> last,
      inp |-> [token |-> "t1", model_id |-> "m1"] ]

Pass == last.kind = "pass"

\* at least one of the six conditions of the gate is false for the unit of the run
SomeConditionFails ==
    LET c == PassCtx
    IN  \/ ~c.env.can_connect[c.u]
        \/ c.env.database # "created"
        \/ get_missing_config_keys(c.env.config) # <<>>
        \/ c.env.openfga = "none"
        \/ authentication_config_status(c) # "active"

AllSucceeded == <<"ok", "ok", "ok", "ok", "ok", "ok">>

\* C1: a pass in which at least one condition of the readiness gate is false never
\* invokes PebbleService.plan: no plan, no add_layer, no start and no replan happens
C1_NoPlanWhenGateFails ==
    (Pass /\ SomeConditionFails) =>
        /\ ~last.gate
        /\ last.plan_calls = 0
        /\ last.add_layer_calls = 0
        /\ last.start_calls = 0
        /\ last.replan_calls = 0
        /\ last.render_calls = 0

\* a pass ran on a unit whose database resource is not created yet
C1_Witness ==
    /\ Pass
    /\ env.database = "joined"
    /\ env.can_connect[last.unit]
    /\ ~last.gate
    /\ last.plan_calls = 0

\* C2: a pass whose gate fails leaves every piece of state the charm writes as it
\* found it (secret, hydra and route data, database schema, peer data, CA file,
\* layer, service), runs no step and no command, and raises nothing.  A record the
\* store-removed handler popped before the pass started is not part of the pass.
C2_GateFailureChangesNothing ==
    [][ (Pass /\ SomeConditionFails)' =>
            /\ ~last'.gate
            /\ st' = IF last'.peer_pops = <<>> THEN st
                     ELSE [st EXCEPT !.peer_data[last'.peer_pops[1]] = ""]
            /\ last'.exc = "none"
            /\ last'.steps = <<>>
            /\ last'.secret_creates = 0
            /\ last'.hydra_writes = 0
            /\ last'.route_submits = 0
            /\ last'.migrate_up = <<>>
            /\ last'.create_model = <<>>
            /\ last'.peer_writes = <<>>
            /\ last'.tls_runs = 0
            /\ last'.plan_calls = 0 ]_vars

\* the gate failed on a unit that has state to lose: a secret, a migrated schema,
\* a recorded model, a CA file to delete and a running service
C2_Witness ==
    /\ Pass
    /\ ~last.gate
    /\ last.event = "config_changed"
    /\ st.secret # ""
    /\ st.migrated
    /\ st.peer_data[env.version[last.unit]] # ""
    /\ st.service[last.unit] = "active"
    /\ st.layer[last.unit] # <<>>

\* C3: in a pass whose gate passes, PebbleService.plan is invoked if and only if
\* all six ensure steps reported success
C3_PlanIffAllStepsSucceed ==
    (Pass /\ last.gate) => ((last.plan_calls = 1) <=> (last.results = AllSucceeded))

\* C4: in a pass whose gate passes, all six ensure steps are executed, in the fixed
\* order, also after a step that failed
C4_AllStepsRun ==
    (Pass /\ last.gate) => (last.steps = EnsureSteps)

\* C5: the API-token secret is created at most once over all passes, and only by a
\* pass on the leader unit that found no secret
C5_SecretCreatedOnceByLeader ==
    /\ st.secrets_created <= 1
    /\ (Pass /\ last.secret_creates > 0) =>
           /\ last.unit = env.leader
           /\ last.secret_at_start = ""
           /\ last.secret_creates = 1
    /\ (Pass /\ last.secret_at_start # "") => (st.secret = last.secret_at_start)

\* a pass on the leader ran when the secret existed already, and kept it
C5_Witness ==
    /\ Pass
    /\ last.unit = env.leader
    /\ last.gate
    /\ last.secret_at_start # ""
    /\ "_ensure_secrets" \in {last.steps[i] : i \in 1..Len(last.steps)}
    /\ st.secrets_created = 1

\* C6: a pass on a unit that is not the leader writes no shared state: peer data,
\* the API-token secret, the hydra relation data, the routing configuration and the
\* database schema stay as they were, and neither migrate up nor create-fga-model
\* is invoked
C6_NonLeaderWritesNothingShared ==
    [][ (last'.kind = "pass" /\ last'.unit # env'.leader) =>
            /\ st'.peer_data = st.peer_data
            /\ st'.secret = st.secret
            /\ st'.secrets_created = st.secrets_created
            /\ st'.hydra_data = st.hydra_data
            /\ st'.route_config = st.route_config
            /\ st'.migrated = st.migrated
            /\ last'.peer_writes = <<>>
            /\ last'.peer_pops = <<>>
            /\ last'.secret_creates = 0
            /\ last'.hydra_writes = 0
            /\ last'.route_submits = 0
            /\ last'.migrate_up = <<>>
            /\ last'.create_model = <<>> ]_vars

\* a non-leader pass reached the migration step while the migration was pending,
\* with the hydra and routing integrations ready
C6_Witness ==
    /\ Pass
    /\ last.unit # env.leader
    /\ last.gate
    /\ env.hydra /\ env.route = "ready"
    /\ last.check_at_start = "not_ready"
    /\ last.steps = SubSeq(EnsureSteps, 1, 4)
    /\ last.results = <<"ok", "ok", "ok", "fail">>

\* what the migrate check command printed says "ok": exit code zero and JSON status "ok"
CheckExitsZeroWithOk ==
    /\ last.check_out.exit = 0
    /\ last.check_out.stdout = <<"json", "ok">>

\* the migrate check command reported a status other than "ok", or exited non-zero
CheckReportsNotOk ==
    \/ last.check_out.exit # 0
    \/ last.check_out.stdout[1] = "json" /\ last.check_out.stdout[2] # "ok"

\* the DSN of the database integration data: first endpoint, credentials, database name
ExpectedDsn ==
    "postgres://" \o env.db_data.username \o ":" \o env.db_data.password
        \o "@" \o Head(env.db_data.endpoints) \o "/model_hook-service"

C8_MigrationFailureIsContainedAndRetried ==
    /\ (Pass /\ last.gate /\ last.migrate_up # <<>> /\ env.up_fault) =>
           /\ last.exc = "none"
           /\ last.results = <<"ok", "ok", "ok", "fail">>
           /\ last.plan_calls = 0
    /\ (Pass /\ last.gate /\ last.unit = env.leader /\ last.up_failures_at_start > 0
             /\ (CheckReportsNotOk \/ last.check_out.stderr # "")) =>
           Len(last.migrate_up) = 1

\* migrate up failed in an earlier pass and fails again in this one
C8_Witness ==
    /\ Pass
    /\ last.gate
    /\ last.up_failures_at_start > 0
    /\ env.up_fault
    /\ Len(last.migrate_up) = 1
    /\ st.up_failures = last.up_failures_at_start + 1
    /\ last.plan_calls = 0

StoreReady == env.openfga \in {"store_no_token", "ready"}

\* C9: with the provisioning store ready and the peer relation present, a pass that
\* finds a model id recorded for the current workload version does not invoke
\* create-fga-model; a leader pass that reaches the provisioning step and finds none
\* (as after a version change) invokes it exactly once and, when the command returns
\* an id, records exactly that id under the current version key
C9_ModelProvisionedOncePerVersion ==
    LET version == env.version[last.unit]
    IN  (Pass /\ last.gate /\ StoreReady /\ env.peer) =>
            /\ (last.record_at_start # "") =>
                   /\ last.create_model = <<>>
                   /\ last.peer_writes = <<>>
                   /\ st.peer_data = [st.peer_data EXCEPT ![version] = last.record_at_start]
            /\ (/\ last.record_at_start = ""
                /\ last.unit = env.leader
                /\ "_ensure_openfga_model" \in {last.steps[i] : i \in 1..Len(last.steps)}) =>
                   /\ Len(last.create_model) = 1
                   /\ (/\ env.openfga = "ready" /\ env.fga_fault = "none"
                       /\ env.slow.cmd # "create-fga-model") => (Len(last.created_ids) = 1)
                   /\ IF last.created_ids # <<>>
                      THEN /\ last.peer_writes = <<version>>
                           /\ st.peer_data[version] = last.created_ids[1]
                           /\ st.peer_data[version] \in ModelIds
                      ELSE /\ last.peer_writes = <<>>
                           /\ st.peer_data[version] = ""

\* after an upgrade from 1.10.0 to 1.11.0 the leader created a model for the new
\* version while the record of the old version was there
C9_Witness ==
    /\ Pass
    /\ last.unit = env.leader
    /\ env.version[last.unit] = "1.11.0"
    /\ last.record_at_start = ""
    /\ st.peer_data["1.10.0"] # ""
    /\ Len(last.create_model) = 1
    /\ st.peer_data["1.11.0"] # ""

\* C10: after the leader has handled the openfga store-removed event (the openfga
\* relation being gone and the peer relation present), no model id remains recorded
\* in the peer data
C10_NoModelIdAfterStoreRemoved ==
    (/\ Pass
     /\ last.event = "openfga_store_removed"
     /\ last.unit = env.leader
     /\ env.openfga = "none"
     /\ env.peer) =>
        \A v \in Versions : st.peer_data[v] = ""

\* C11: when PebbleService.plan is invoked in a pass and the add_layer call or the
\* start/replan call that follows it fails, the failure leaves _holistic_handler as
\* an exception and the hook fails: no unit status is evaluated after it
C11_PlanFailurePropagates ==
    (/\ Pass
     /\ last.plan_calls = 1
     /\ env.pebble_fault # "none") =>
        /\ last.exc \in {"pebble.Error", "PebbleError"}
        /\ last.exc = (IF env.pebble_fault = "add_layer" THEN "pebble.Error" ELSE "PebbleError")
        /\ last.status.name = "unknown"
        /\ last.start_calls = 0
        /\ last.replan_calls = 0

\* C11 witness: a pass whose add_layer succeeded and whose start/replan call failed
C11_Witness ==
    /\ Pass
    /\ last.plan_calls = 1
    /\ env.pebble_fault = "restart"
    /\ last.exc = "PebbleError"
    /\ st.layer[last.unit] # <<>>

\* salesforce is enabled and the configured consumer secret does not resolve
SalesforceSecretUnresolvable ==
    /\ env.config.salesforce_enabled
    /\ env.config.salesforce_consumer_secret # ""
    /\ env.config.salesforce_consumer_secret \notin UserSecrets

\* C12: in a pass with salesforce enabled and a consumer secret that cannot be
\* resolved, no InvalidSalesforceConfig leaves the event handler, and the unit status
\* evaluated after the handler is Blocked
C12_UnresolvableSecretOnlyBlocks ==
    (Pass /\ SalesforceSecretUnresolvable) =>
        /\ last.exc # "InvalidSalesforceConfig"
        /\ (last.exc = "none" /\ last.status_exc = "none") => last.status.name = "blocked"

\* the create-fga-model command, run under the inputs of the pass, yields no model id
CreateFgaModelFails == env.fga_fault # "none" \/ env.openfga # "ready"

\* C13: when create-fga-model is invoked on the leader and fails, no exception leaves
\* the pass, nothing is written to the peer data and plan is not invoked; a
\* gate-passing leader pass that reaches the provisioning step and still finds no
\* model id recorded invokes create-fga-model again
C13_ModelCreationFailureIsContainedAndRetried ==
    /\ (Pass /\ last.unit = env.leader /\ last.create_model # <<>> /\ CreateFgaModelFails) =>
           /\ last.exc = "none"
           /\ last.peer_writes = <<>>
           /\ last.plan_calls = 0
    /\ (Pass /\ last.gate /\ last.unit = env.leader /\ StoreReady /\ env.peer
             /\ last.record_at_start = "" /\ Len(last.results) >= 4
             /\ SubSeq(last.results, 1, 4) = <<"ok", "ok", "ok", "ok">>) =>
           Len(last.create_model) = 1

\* C14: when migrate check or create-fga-model is run in a pass and exits non-zero or
\* prints something that is not JSON, the failure is handled inside the pass: no
\* JSONDecodeError (nor any other exception of the command) leaves the event handler
\* or the status evaluation that follows it
C14_CommandFailureIsTypedNotACrash ==
    (/\ Pass
     /\ \/ last.migration_checks > 0 /\ env.check_fault \in {"exec_error", "bad_json"}
        \/ last.create_model # <<>> /\ env.fga_fault \in {"exec_error", "bad_json"}) =>
        /\ last.exc \in {"none", "pebble.Error", "PebbleError", "InvalidSalesforceConfig"}
        /\ last.status_exc = "none"

\* collect-status ran on a unit and set its status
StatusRun == last.kind = "status"

C16_NoPlanImpliesNotActive ==
    (/\ Pass
     /\ last.exc = "none"
     /\ last.status_exc = "none"
     /\ last.plan_calls = 0) =>
        last.status.name # "active"

\* the ten conditions of the status handler, read off the inputs of the unit of the run
ContainerConnectable == env.can_connect[last.unit]
NoMissingConfigKey ==
    env.config.salesforce_enabled =>
        (env.config.salesforce_domain # "" /\ env.config.salesforce_consumer_secret # "")
ApiTokenSecretReady == st.secret # ""
HealthCheckNotFailing == ~(st.layer[last.unit] # <<>> /\ env.health_failing)
IntegrationsPresent == env.database # "none" /\ env.openfga # "none"
DatabaseResourceCreated == env.database = "created"
MigrationCheckSaysOk == env.check_fault = "none" /\ st.migrated
NoResourcePatchFailure == ~env.patch_failed

NoCheckApplies ==
    /\ ContainerConnectable
    /\ NoMissingConfigKey
    /\ ApiTokenSecretReady
    /\ HealthCheckNotFailing
    /\ IntegrationsPresent
    /\ DatabaseResourceCreated
    /\ StoreReady
    /\ MigrationCheckSaysOk
    /\ NoResourcePatchFailure

C18_MigrationCheckFailureIsBlocked ==
    (/\ StatusRun
     /\ ContainerConnectable
     /\ NoMissingConfigKey
     /\ ApiTokenSecretReady
     /\ HealthCheckNotFailing
     /\ IntegrationsPresent
     /\ DatabaseResourceCreated
     /\ StoreReady
     /\ NoResourcePatchFailure
     /\ env.check_fault \in {"exec_error", "stderr", "bad_json"}) =>
        /\ last.status_exc = "none"
        /\ last.status.name = "blocked"
        /\ last.status.message \in
               { "Migration check failed: Failed to check migration status",
                 "Migration check failed: Migration check error: error" }

\* every check of the status handler passes except, possibly, the migration check
AllOtherChecksPass ==
    /\ ContainerConnectable
    /\ NoMissingConfigKey
    /\ ApiTokenSecretReady
    /\ HealthCheckNotFailing
    /\ IntegrationsPresent
    /\ DatabaseResourceCreated
    /\ StoreReady
    /\ NoResourcePatchFailure

\* C19: when all other checks pass and the migrate check answers that the migration
\* is not done, the unit status is WaitingStatus("Waiting for database migration") on
\* the leader and WaitingStatus("Waiting for leader unit to run the migration") on a
\* non-leader unit
C19_MigrationNotReadyIsWaiting ==
    (/\ StatusRun
     /\ AllOtherChecksPass
     /\ env.check_fault = "none"
     /\ ~st.migrated) =>
        /\ last.status_exc = "none"
        /\ last.status =
               IF last.unit = env.leader
               THEN WaitingStatus("Waiting for database migration")
               ELSE WaitingStatus("Waiting for leader unit to run the migration")

\* C19 witness: a non-leader unit waits for the leader to migrate
C19_Witness ==
    /\ StatusRun
    /\ AllOtherChecksPass
    /\ env.check_fault = "none"
    /\ ~st.migrated
    /\ last.unit # env.leader
    /\ last.status.message = "Waiting for leader unit to run the migration"

\* C20: handling collect-status changes nothing: the secret, the peer data, the
\* relation data written by the charm, the database, the certificate file, the
\* workload layer and the service state, for every unit, are the same before and after
\* _on_collect_status, whatever the inputs
C20_CollectStatusChangesNoState ==
    [][(last'.kind = "status") => (st' = st /\ env' = env)]_vars

\* C20 witness: collect-status ran where a check found something missing that a
\* reconciliation pass would have created
C20_Witness ==
    /\ StatusRun
    /\ st.secret = ""
    /\ ContainerConnectable
    /\ NoMissingConfigKey
    /\ last.status = WaitingStatus("Waiting for secrets creation")

\* a state of the charm without the count of the failed migrations, which is history
WithoutHistory(s) == [s EXCEPT !.up_failures = 0]

\* the state an uninterrupted config-changed pass on unit u reaches from state s
UninterruptedFrom(u, s, token, model_id) ==
    Handle("config_changed",
           [ u |-> u, env |-> env, st |-> s, inp |-> [token |-> token, model_id |-> model_id],
             log |-> [NoPass EXCEPT !.kind = "pass", !.unit = u] ]).st

\* C21: when a pass is stopped after any step, or between the return of
\* create-fga-model and the recording of its result, and the event is delivered again,
\* the re-run does not repeat a one-time action the stopped pass completed (it creates
\* no second secret and runs create-fga-model no second time), and it ends in the
\* state an uninterrupted pass would have reached
C21_RerunAfterAbortIsSafe ==
    [][(last.kind = "aborted" /\ last'.kind = "pass") =>
           /\ last.secret_creates > 0 => last'.secret_creates = 0
           /\ last.created_ids # <<>> => last'.create_model = <<>>
           /\ \E token \in Tokens, model_id \in ModelIds :
                  WithoutHistory(st') =
                      WithoutHistory(UninterruptedFrom(last.unit, last.st_before,
                                                       token, model_id))]_vars

\* a process rendered the layer
RenderRun == last.kind = "render"

\* the render of a process that has rendered nothing before, under the same inputs
FreshRender ==
    _pebble_layer([ u |-> last.unit, env |-> env, st |-> st,
                    inp |-> [token |-> "t1", model_id |-> "m1"],
                    log |-> [NoPass EXCEPT !.kind = "render", !.unit = last.unit] ])

\* C22: a render yields the layer and the environment map that the first render of a
\* process yields under the same configuration, secret and integration inputs,
\* whatever the same PebbleService rendered before; so two renders from identical
\* inputs are identical, also with other renders in between
C22_RenderIsDeterministic ==
    RenderRun =>
        /\ last.exc = FreshRender.exc
        /\ last.exc = "none" =>
               /\ last.layer = FreshRender.layer
               /\ last.layer.environment = FreshRender.layer.environment
               /\ last.layer_dict = FreshRender.c.log.layer_dict

\* C22 witness: the PebbleService had rendered an environment with other keys before
C22_Witness ==
    /\ RenderRun
    /\ last.exc = "none"
    /\ "environment" \in DOMAIN last.layer_dict_at_start
    /\ DOMAIN last.layer_dict_at_start.environment # DOMAIN last.layer.environment
    /\ last.layer = FreshRender.layer

\* what each source of the layer contributes under the inputs of the render, in the
\* order tracing, database, secrets, configuration, openfga model, openfga integration
RenderSources ==
    LET c == [ u |-> last.unit, env |-> env, st |-> st,
               inp |-> [token |-> "t1", model_id |-> "m1"], log |-> NoPass ]
    IN  << TracingData_to_env_vars(c),
           DatabaseConfig_to_env_vars(c),
           Secrets_to_env_vars(c).vars,
           CharmConfig_to_env_vars(env.config).vars,
           OpenFGAModelData_to_env_vars(PeerData_getitem(c, WorkloadService_version(c))),
           OpenFGAIntegrationData_to_env_vars(OpenFGAIntegration_openfga_integration_data(c)) >>

\* the sources that define key k
Definers(k) == { i \in 1..Len(RenderSources) : k \in DOMAIN RenderSources[i] }

C24_PlanSameLayerChangesNothing ==
    [][(/\ last'.kind = "pass"
        /\ last'.plan_calls = 1
        /\ last'.exc = "none"
        /\ st.layer[last'.unit] = <<last'.layer>>
        /\ st.service[last'.unit] = "active"
        /\ st.started_with[last'.unit] = <<last'.layer>>) =>
           /\ st'.layer = st.layer
           /\ st'.service = st.service
           /\ st'.started_with = st.started_with
           /\ last'.start_calls = 0
           /\ last'.restart_calls = 0
           /\ last'.service_restarts = 0]_vars

\* C24 witness: the second of two passes that planned the same layer
C24_Witness ==
    /\ Pass
    /\ last.plan_calls = 1
    /\ last.exc = "none"
    /\ last.replan_calls = 1
    /\ last.service_restarts = 0
    /\ st.layer[last.unit] = <<last.layer>>
    /\ st.started_with[last.unit] = <<last.layer>>

\* C25 as stated: when plan is called with a layer that differs from the one the
\* container holds, the service is restarted (Container.restart) if it is running and
\* started otherwise
C25_ChangedLayerRestartsRunningService ==
    [][(/\ last'.kind = "pass"
        /\ last'.plan_calls = 1
        /\ last'.exc = "none"
        /\ st.layer[last'.unit] # <<last'.layer>>) =>
           IF st.service[last'.unit] = "active"
           THEN last'.restart_calls = 1 /\ last'.start_calls = 0 /\ last'.replan_calls = 0
           ELSE last'.restart_calls = 0 /\ last'.start_calls = 1
                /\ last'.replan_calls = 0]_vars

\* C25 amended: when plan is called with a layer that differs from the one the
\* container holds, plan never calls Container.restart; the service is started if it
\* is not running, and otherwise Container.replan is called, upon which Pebble
\* restarts the service when the configuration it runs with differs from the new
\* layer; either way the service ends up running with the new layer
C25_ChangedLayerStartsOrReplans ==
    [][(/\ last'.kind = "pass"
        /\ last'.plan_calls = 1
        /\ last'.exc = "none"
        /\ st.layer[last'.unit] # <<last'.layer>>) =>
           /\ last'.restart_calls = 0
           /\ st'.service[last'.unit] = "active"
           /\ st'.started_with[last'.unit] = <<last'.layer>>
           /\ IF st.service[last'.unit] # "active"
              THEN last'.start_calls = 1 /\ last'.replan_calls = 0
                   /\ last'.service_restarts = 0
              ELSE last'.start_calls = 0 /\ last'.replan_calls = 1
                   /\ last'.service_restarts =
                          (IF st.started_with[last'.unit] # <<last'.layer>> THEN 1 ELSE 0)]_vars

\* C25 witness: a pass planned a changed layer while the service was running
C25_Witness ==
    /\ Pass
    /\ last.plan_calls = 1
    /\ last.exc = "none"
    /\ last.replan_calls = 1
    /\ last.service_restarts = 1
    /\ st.started_with[last.unit] = <<last.layer>>


(***************************************************************************)
(* C26: the timeouts of the commands                                       *)
(***************************************************************************)
\* a command that the run executed took longer than the longest timeout there is
CommandTimedOut ==
    \/ last.migration_checks > 0 /\ env.slow = [cmd |-> "migrate check", seconds |-> 200]
    \/ last.migrate_up # <<>> /\ env.slow = [cmd |-> "migrate up", seconds |-> 200]
    \/ last.create_model # <<>> /\ env.slow = [cmd |-> "create-fga-model", seconds |-> 60]

\* C26: every command of the workload runs with a finite timeout, 20 seconds by
\* default and 120 seconds for the migration commands (a migration check of 60
\* seconds ends normally), and a command that times out in a run that passes the
\* gate is a failed ensure step: no exception leaves the run and plan is not called
C26_TimedOutCommandFailsTheStep ==
    /\ (Pass /\ last.gate /\ last.migration_checks > 0 /\ env.can_connect[last.unit]
             /\ env.check_fault = "none"
             /\ env.slow = [cmd |-> "migrate check", seconds |-> 60]) =>
            last.check_out.exit = 0
    /\ (Pass /\ last.gate /\ CommandTimedOut) =>
            (last.exc = "none" /\ last.plan_calls = 0)


(***************************************************************************)
(* C27: the events and the handler                                         *)
(***************************************************************************)
NonReconcilingEvents == {"pebble_check_failed", "pebble_check_recovered", "collect_status"}

\* C27: the handler of each observed event other than pebble-check-failed,
\* pebble-check-recovered and collect-status calls _holistic_handler exactly once, and
\* the handlers of these three never call it
C27_ReconcilingEventsCallTheHandlerOnce ==
    Pass => last.holistic_calls = (IF last.event \in NonReconcilingEvents THEN 0 ELSE 1)

C27_Witness ==
    /\ Pass /\ last.event = "pebble_ready" /\ last.gate
    /\ last.holistic_calls = 1 /\ last.open_port_calls = 1 /\ last.set_version_calls = 1


(***************************************************************************)
(* C28: the DSN                                                            *)
(***************************************************************************)
\* the first entry of each endpoints string of the bounded set
FirstEntryOf(endpoints) ==
    CASE endpoints = <<>> -> ""
      [] endpoints = <<"h1:5432">> -> "h1:5432"
      [] endpoints = <<"h1:5432", ",", "h2:5432">> -> "h1:5432"
      [] endpoints = <<",", "h2:5432">> -> ""
      [] endpoints = <<"h1:5432", ",">> -> "h1:5432"
      [] endpoints = <<"h1:5432", ",", "h2:5432", ",", "h3:5432">> -> "h1:5432"

\* C28: for every username, password, endpoints string and database of the bounded
\* set the dsn is postgres://<username>:<password>@<endpoint>/<database> with the
\* first entry of the comma-separated endpoints as endpoint, and without a database
\* integration the four parts are empty
C28_DsnIsTheTemplateOverTheFirstEndpoint ==
    (last.kind = "dsn") =>
        /\ (env.database = "created") =>
               last.dsn = "postgres://" \o env.db_data.username \o ":" \o env.db_data.password
                              \o "@" \o FirstEntryOf(env.db_data.endpoints)
                              \o "/" \o "model_hook-service"
        /\ (env.database = "none") => last.dsn = "postgres://:@/"

C28_Witness ==
    /\ last.kind = "dsn" /\ env.database = "created"
    /\ env.db_data = [endpoints |-> <<"h1:5432", ",", "h2:5432", ",", "h3:5432">>,
                      username |-> "v", password |-> "q"]
    /\ last.dsn = "postgres://v:q@h1:5432/model_hook-service"


(***************************************************************************)
(* C29: the data of the hydra-token-hook relation                          *)
(***************************************************************************)
\* C29: in a pass that passes the gate the hook URL and the API token are written to
\* the hydra-token-hook relation exactly when the unit is the leader and the relation
\* is active, once, and the token written is the content of the API-token secret,
\* which exists at the time of the write
C29_HookDataWrittenByTheLeaderWithTheSecret ==
    (Pass /\ last.gate) =>
        /\ last.hydra_writes = (IF last.leader /\ env.hydra THEN 1 ELSE 0)
        /\ (last.hydra_writes = 1) =>
               /\ st.secret # ""
               /\ st.hydra_data =
                      << [ url |-> IF env.route = "ready"
                                   THEN "http://ingress/model-app/api/v0/hook/hydra"
                                   ELSE "http://hook-service.model.svc.cluster.local:8080/api/v0/hook/hydra",
                           auth_config_value |-> st.secret ] >>

\* the leader created the secret in the pass in which it wrote the data
C29_Witness ==
    /\ Pass /\ last.gate /\ last.leader /\ env.hydra
    /\ last.secret_at_start = "" /\ last.secret_creates = 1
    /\ last.hydra_writes = 1
    /\ st.hydra_data[1].auth_config_value = st.secret


(***************************************************************************)
(* C30: the certificate file of the charm                                  *)
(***************************************************************************)
\* the certificates the v1 and v0 integrations supply to the unit
SuppliedCAs == env.certs_v1 \cup env.certs_v0

\* C30: after a run of _ensure_tls the certificate file of the unit exists exactly
\* when the certificate-transfer integrations supply a CA certificate, and its
\* content is then the certificates without duplicates, sorted, one per line
C30_CertFileIsTheSortedBundle ==
    (Pass /\ last.tls_runs > 0) =>
        LET file == st.cert_file[last.unit]
        IN  /\ last.tls_runs = 1
            /\ file.exists <=> (SuppliedCAs # {})
            /\ file.exists =>
                   file.text = CASE SuppliedCAs = {"ca1"} -> "ca1"
                                 [] SuppliedCAs = {"ca2"} -> "ca2"
                                 [] SuppliedCAs = {"ca1", "ca2"} -> "ca1\nca2"

\* both kinds of integration supply ca1 and a v1 integration supplies ca2
C30_Witness ==
    /\ Pass /\ last.tls_runs = 1
    /\ env.certs_v1 = {"ca1", "ca2"} /\ env.certs_v0 = {"ca1"}
    /\ st.cert_file[last.unit] = [exists |-> TRUE, text |-> "ca1\nca2"]


(***************************************************************************)
(* C31: the plan and the API-token secret                                  *)
(***************************************************************************)
\* C31: plan is not called while the API-token secret is absent, on any unit, and the
\* API_TOKEN of the layer handed to plan, and of every layer applied to a container,
\* is the content of the secret
C31_PlanOnlyWithTheSecretAsToken ==
    /\ (Pass /\ last.plan_calls > 0) =>
           /\ st.secret # ""
           /\ last.secret_at_start # "" \/ (last.leader /\ last.secret_creates = 1)
           /\ last.layer.environment.API_TOKEN = st.secret
    /\ \A u \in Units :
           (st.layer[u] # <<>>) => st.layer[u][1].environment.API_TOKEN = st.secret

\* a non-leader applied the plan with the token the leader created
C31_Witness ==
    /\ Pass /\ ~last.leader /\ last.plan_calls = 1 /\ last.exc = "none"
    /\ last.secret_at_start = "t1"
    /\ st.layer[last.unit][1].environment.API_TOKEN = "t1"


(***************************************************************************)
(* C32: the plan and the authorization model                               *)
(***************************************************************************)
\* C32: whenever plan is called the peer data holds a non-empty model id under the
\* workload version of the unit, and the OPENFGA_AUTHORIZATION_MODEL_ID of the layer
\* handed to plan is that id
C32_PlanOnlyWithTheRecordedModel ==
    (Pass /\ last.plan_calls > 0) =>
        LET recorded == st.peer_data[env.version[last.unit]]
        IN  /\ recorded \in ModelIds
            /\ last.layer.environment.OPENFGA_AUTHORIZATION_MODEL_ID = recorded

\* the leader created model m2, recorded it and applied the plan with it
C32_Witness ==
    /\ Pass /\ last.leader /\ last.created_ids = <<"m2">> /\ last.plan_calls = 1
    /\ last.exc = "none"
    /\ st.layer[last.unit][1].environment.OPENFGA_AUTHORIZATION_MODEL_ID = "m2"


(***************************************************************************)
(* C33: the arguments of create-fga-model                                  *)
(***************************************************************************)
\* C33: create-fga-model is never run with an empty store id, API token or API URL:
\* the integration data of every provisioning call of a pass has the three fields
\* non-empty
C33_ProvisioningCallHasStoreCoordinates ==
    Pass =>
        \A i \in 1..Len(last.create_model) :
            /\ last.create_model[i].store_id # ""
            /\ last.create_model[i].api_token # ""
            /\ last.create_model[i].url # ""


(***************************************************************************)
(* C34: provisioning and the peer relation                                 *)
(***************************************************************************)
\* C34: create-fga-model is not run while the peer relation is absent, and every
\* model id a provisioning call of a pass returned is recorded in the peer data:
\* no created model is lost by a write that PeerData drops
C34_NoProvisioningWithoutPeerRelation ==
    Pass =>
        /\ (last.create_model # <<>>) => env.peer
        /\ Len(last.created_ids) <= 1
        /\ (last.created_ids # <<>>) =>
               /\ last.peer_writes = <<env.version[last.unit]>>
               /\ st.peer_data[env.version[last.unit]] = last.created_ids[1]

\* after an upgrade the leader created model m1 for 1.11.0 and recorded it
C34_Witness ==
    /\ Pass /\ env.peer /\ env.version[last.unit] = "1.11.0"
    /\ last.created_ids = <<"m1">>
    /\ last.peer_writes = <<"1.11.0">>
    /\ st.peer_data["1.11.0"] = "m1"


(***************************************************************************)
(* C35: the keys of the peer data                                          *)
(***************************************************************************)
\* C35: a step changes the peer data only under the workload version of the unit that
\* runs the handler: recording a model id, or clearing it when the store is removed,
\* leaves the records of every other version as they were
C35_PeerDataChangesOnlyTheCurrentVersionKey ==
    [][\A v \in Versions :
           (st'.peer_data[v] # st.peer_data[v]) =>
               /\ last'.kind = "pass"
               /\ v = env.version[last'.unit]
               /\ \A i \in 1..Len(last'.peer_writes) : last'.peer_writes[i] = v
               /\ \A i \in 1..Len(last'.peer_pops) : last'.peer_pops[i] = v]_vars

\* the store was removed after an upgrade: the leader cleared and wrote the record of
\* 1.11.0 and the record of 1.10.0 is still there
C35_Witness ==
    /\ Pass /\ last.event = "openfga_store_removed"
    /\ last.peer_pops = <<"1.11.0">>
    /\ st.peer_data["1.10.0"] # ""


(***************************************************************************)
(* C36: a second pass with the same inputs                                 *)
(***************************************************************************)
\* a config-changed pass that passes the gate follows, on the same unit and with no
\* change of the inputs in between, a pass that passed the gate and applied the plan
SecondPassAfterAppliedPlan ==
    /\ Pass /\ last.gate /\ last.plan_calls > 0 /\ last.exc = "none"
    /\ last'.kind = "pass" /\ last'.unit = last.unit /\ last'.gate
    /\ last'.event = "config_changed"

CheckReportsOkNow ==
    LET out == ExecMigrateCheck(PassCtx)
    IN  out.exit = 0 /\ out.stderr = "" /\ out.stdout = <<"json", "ok">>

\* C37: however the handlers of the leader interleave with the pass of a unit that is
\* not the leader, that unit calls plan only when the API-token secret exists, the
\* migration check reports ok and a model id was recorded in the peer data under its
\* own workload version, the id its layer carries; it produced none of the three
C37_NonLeaderPlansOnlyAfterTheLeaderProvisioned ==
    (Pass /\ ~last.leader /\ last.plan_calls > 0) =>
        LET version == env.version[last.unit]
            model_id == last.layer.environment.OPENFGA_AUTHORIZATION_MODEL_ID
        IN  /\ st.secret # "" /\ last.layer.environment.API_TOKEN = st.secret
            /\ st.migrated /\ CheckReportsOkNow
            /\ model_id \in ModelIds
            /\ \/ model_id = st.peer_data[version]
               \/ last.peer_cache # <<>> /\ model_id = last.peer_cache[1][version]
            /\ last.secret_creates = 0 /\ last.migrate_up = <<>>
            /\ last.create_model = <<>> /\ last.peer_writes = <<>>

\* the pass of u1 started when there was no secret, the leader provisioned while it
\* was at its point, and it went on to apply the plan
C37_Witness ==
    /\ Pass /\ last.unit = "u1" /\ ~last.leader /\ changes > 0
    /\ last.secret_at_start = "" /\ last.record_at_start = ""
    /\ last.plan_calls = 1 /\ last.exc = "none"
    /\ st.service["u1"] = "active"

\* the plan of unit u is applied: its layer is in the plan and its service runs
PlanApplied(u) == st.layer[u] # <<>> /\ st.service[u] = "active"

\* the pass of the leader that started with no secret, a pending migration and no
\* recorded model id
FirstLeaderPass ==
    /\ Pass /\ last.leader
    /\ last.secret_at_start = "" /\ last.record_at_start = "" /\ last.migrate_up # <<>>

\* C38: in a settled deployment the pass of the leader that starts with no secret, a
\* pending migration and no recorded model id applies the plan, and every unit that
\* runs the workload version of the leader eventually has its plan applied
C38_EveryUnitOfTheVersionAppliesThePlan ==
    /\ [](FirstLeaderPass => (last.plan_calls = 1 /\ last.exc = "none"
                               /\ PlanApplied(last.unit)))
    /\ \A u \in Units :
           (env.version[u] = env.version[env.leader]) ~> PlanApplied(u)

\* with the configured consumer secret resolvable, the two halves hold
C38_HoldsWhenTheConsumerSecretResolves ==
    /\ []((FirstLeaderPass /\ ~SalesforceSecretUnresolvable) =>
              (last.plan_calls = 1 /\ last.exc = "none" /\ PlanApplied(last.unit)))
    /\ \A u \in Units :
           (env.version[u] = env.version[env.leader] /\ ~SalesforceSecretUnresolvable)
               ~> PlanApplied(u)

\* the unit that is not the leader applied its plan after the leader provisioned
C38_Witness ==
    /\ Pass /\ ~last.leader /\ last.plan_calls = 1 /\ last.exc = "none"
    /\ env.version[last.unit] = env.version[env.leader]
    /\ PlanApplied(last.unit) /\ PlanApplied(env.leader)

====
